---- MODULE Spec2Model ----
(***************************************************************************)
(* A model of the calculator core of fermat: src/src/evaluator.rs          *)
(* (tokenize, evaluate, apply_operator, factorial).                        *)
(*                                                                         *)
(* One run of the model is one call chain tokenize -> evaluate on an input *)
(* string, or one call of evaluate on a token slice built by a caller.     *)
(* The steps of the run are the lexer, the iterations of the tokenizer's   *)
(* post-processing loop, the iterations of evaluate's special-case scan,   *)
(* the iterations of evaluate's main loop and evaluate's epilogue.         *)
(*                                                                         *)
(* rust_decimal::Decimal is modelled as sign, mantissa and scale, the      *)
(* mantissa being an unbounded natural number written as its decimal       *)
(* digits, least significant first, so that 20! and 10^28 are computed     *)
(* exactly.  An operation whose exact result does not fit a Decimal        *)
(* (mantissa below 2^96, scale at most 28) and one that goes through f64   *)
(* yields "inexact": the code goes on with a rounded value whose digits    *)
(* this model does not track.                                              *)
(***************************************************************************)
EXTENDS Integers, Sequences, FiniteSets, TLC

(***************************************************************************)
(* Natural numbers as digit sequences, least significant digit first,      *)
(* without high zeros; zero is the empty sequence.  Sums and products are  *)
(* computed on limbs of four digits, which keeps the recursions short.     *)
(***************************************************************************)
RECURSIVE NatOf(_)
NatOf(n) ==
    IF n = 0 THEN <<>> ELSE <<n % 10>> \o NatOf(n \div 10)

RECURSIVE NatVal(_)
NatVal(a) ==
    IF a = <<>> THEN 0 ELSE Head(a) + 10 * NatVal(Tail(a))

SeqTrim(a) ==
    LET nz == {i \in 1..Len(a) : a[i] # 0}
    IN  IF nz = {} THEN <<>>
        ELSE SubSeq(a, 1, CHOOSE i \in nz : \A j \in nz : j <= i)

NatDigit(a, i) ==
    IF i <= Len(a) THEN a[i] ELSE 0

NatLow(a) ==
    NatDigit(a, 1)

NatRest(a) ==
    IF a = <<>> THEN a ELSE Tail(a)

ToLimbs(a) ==
    [j \in 1..((Len(a) + 3) \div 4) |->
        NatDigit(a, 4 * j - 3) + 10 * NatDigit(a, 4 * j - 2)
        + 100 * NatDigit(a, 4 * j - 1) + 1000 * NatDigit(a, 4 * j)]

FromLimbs(l) ==
    SeqTrim([i \in 1..(4 * Len(l)) |->
        LET limb == l[((i - 1) \div 4) + 1]
            k    == (i - 1) % 4
        IN  IF k = 0 THEN limb % 10
            ELSE IF k = 1 THEN (limb \div 10) % 10
            ELSE IF k = 2 THEN (limb \div 100) % 10
            ELSE limb \div 1000])

RECURSIVE LimbAddC(_, _, _)
LimbAddC(a, b, c) ==
    IF a = <<>> /\ b = <<>>
    THEN (IF c = 0 THEN <<>> ELSE <<c>>)
    ELSE LET s == NatLow(a) + NatLow(b) + c
         IN  <<s % 10000>> \o LimbAddC(NatRest(a), NatRest(b), s \div 10000)

\* a - b for a >= b
RECURSIVE LimbSubB(_, _, _)
LimbSubB(a, b, c) ==
    IF a = <<>> THEN <<>>
    ELSE LET d == Head(a) - NatLow(b) - c
         IN  IF d < 0
             THEN <<d + 10000>> \o LimbSubB(Tail(a), NatRest(b), 1)
             ELSE <<d>> \o LimbSubB(Tail(a), NatRest(b), 0)

\* a * d for one limb d
RECURSIVE LimbMulSmallC(_, _, _)
LimbMulSmallC(a, d, c) ==
    IF a = <<>>
    THEN (IF c = 0 THEN <<>> ELSE <<c>>)
    ELSE LET p == Head(a) * d + c
         IN  <<p % 10000>> \o LimbMulSmallC(Tail(a), d, p \div 10000)

RECURSIVE LimbMul(_, _)
LimbMul(a, b) ==
    IF a = <<>> \/ b = <<>> THEN <<>>
    ELSE LimbAddC(LimbMulSmallC(a, Head(b), 0), <<0>> \o LimbMul(a, Tail(b)), 0)

NatAdd(a, b) ==
    FromLimbs(LimbAddC(ToLimbs(a), ToLimbs(b), 0))

\* a - b for a >= b
NatSub(a, b) ==
    FromLimbs(LimbSubB(ToLimbs(a), ToLimbs(b), 0))

NatMul(a, b) ==
    FromLimbs(LimbMul(ToLimbs(a), ToLimbs(b)))

\* -1, 0, 1 as a is below, equal to, above b
NatCmp(a, b) ==
    IF Len(a) < Len(b) THEN -1
    ELSE IF Len(a) > Len(b) THEN 1
    ELSE LET diff == {i \in 1..Len(a) : a[i] # b[i]}
         IN  IF diff = {} THEN 0
             ELSE LET k == CHOOSE i \in diff : \A j \in diff : j <= i
                  IN  IF a[k] < b[k] THEN -1 ELSE 1

NatLe(a, b) ==
    NatCmp(a, b) <= 0

\* a * 10^k
NatShift(a, k) ==
    IF a = <<>> THEN a ELSE [i \in 1..k |-> 0] \o a

\* a \div 10^k
NatDrop(a, k) ==
    IF k >= Len(a) THEN <<>> ELSE SubSeq(a, k + 1, Len(a))

\* whether 10^n divides a
NatLowZeros(a, n) ==
    \A i \in 1..n : NatDigit(a, i) = 0

\* the number of zero digits at the low end of a # 0
NatTrailingZeros(a) ==
    IF a = <<>> THEN 0
    ELSE (CHOOSE i \in 1..Len(a) : a[i] # 0 /\ \A j \in 1..(i - 1) : a[j] = 0) - 1

\* the multiples 0 * b .. 10 * b, at indexes 1 .. 11
NatMultiples(b) ==
    [q \in 1..11 |-> NatMul(b, NatOf(q - 1))]

\* the digit q with q * b <= r < (q + 1) * b, for r < 10 * b
NatQuotDigit(r, multiples) ==
    CHOOSE q \in 0..9 : NatLe(multiples[q + 1], r) /\ ~ NatLe(multiples[q + 2], r)

\* long division of a by b # 0, from the most significant digit of a (index k) down
RECURSIVE NatDivFrom(_, _, _, _, _)
NatDivDigit(a, multiples, k, q, cur, d) ==
    NatDivFrom(a, multiples, k - 1, <<d>> \o q, NatSub(cur, multiples[d + 1]))

NatDivCur(a, multiples, k, q, cur) ==
    NatDivDigit(a, multiples, k, q, cur, NatQuotDigit(cur, multiples))

NatDivFrom(a, multiples, k, q, r) ==
    IF k = 0 \/ Len(q) < 0 \/ Len(r) < 0 THEN [q |-> SeqTrim(q), r |-> r]
    ELSE NatDivCur(a, multiples, k, q, SeqTrim(<<a[k]>> \o r))

NatDivBy(a, b, multiples) ==
    IF multiples[2] = b THEN NatDivFrom(a, multiples, Len(a), <<>>, <<>>)
    ELSE [q |-> <<>>, r |-> <<>>]

NatDivMod(a, b) ==
    NatDivBy(a, b, NatMultiples(b))

(***************************************************************************)
(* rust_decimal::Decimal: value (-1)^neg * mag / 10^scale.  Zero is kept   *)
(* unsigned (its sign is not observable by the comparisons of the code).   *)
(***************************************************************************)
\* 2^96 - 1, the largest mantissa of a Decimal
MaxMantissa ==
    <<5, 3, 3, 0, 5, 9, 3, 4, 5, 3, 9, 5, 7, 3, 3, 4, 6, 2, 4, 1, 5, 2, 6, 1, 8, 2, 2, 9, 7>>

\* the largest scale of a Decimal
MaxScale == 28

Dec(neg, mag, scale) ==
    [neg |-> neg /\ mag # <<>>, mag |-> mag, scale |-> scale]

\* Decimal::from(n) for a machine integer n
DecOfInt(n) ==
    IF n < 0 THEN Dec(TRUE, NatOf(-n), 0) ELSE Dec(FALSE, NatOf(n), 0)

DecOne == DecOfInt(1)

\* the results of an operation on Decimals
Val(d) == [k |-> "val", d |-> d]
Overflow == [k |-> "overflow"]
Inexact == [k |-> "inexact"]

\* The exact value mag / 10^scale as a Decimal when one holds it: zero low digits
\* are dropped while the mantissa or the scale is too large; a value whose integer
\* part does not fit overflows, any other is rounded by the library.
RECURSIVE DecFit(_, _, _)
DecFit(neg, mag, scale) ==
    IF scale <= MaxScale /\ NatLe(mag, MaxMantissa) THEN Val(Dec(neg, mag, scale))
    ELSE IF scale > 0 /\ NatLow(mag) = 0 THEN DecFit(neg, NatRest(mag), scale - 1)
    ELSE IF ~ NatLe(NatDrop(mag, scale), MaxMantissa) THEN Overflow
    ELSE Inexact

\* Neg for Decimal
DecNeg(d) ==
    Dec(~ d.neg, d.mag, d.scale)

\* Decimal::abs
DecAbs(d) ==
    Dec(FALSE, d.mag, d.scale)

\* Decimal::is_zero
DecIsZero(d) ==
    d.mag = <<>>

\* d < Decimal::ZERO
DecIsNegative(d) ==
    d.neg /\ d.mag # <<>>

\* Decimal::fract(d).is_zero()
DecFractIsZero(d) ==
    NatLowZeros(d.mag, d.scale)

\* the magnitude of Decimal::to_i128(d): the integer part, truncated toward zero
DecIntMag(d) ==
    NatDrop(d.mag, d.scale)

\* the mantissa of d written at scale s >= d.scale
DecMagAt(d, s) ==
    NatShift(d.mag, s - d.scale)

DecMaxScale(x, y) ==
    IF x.scale >= y.scale THEN x.scale ELSE y.scale

\* PartialEq for Decimal: numeric equality, whatever the scales
DecEq(x, y) ==
    LET s == DecMaxScale(x, y)
    IN  /\ DecMagAt(x, s) = DecMagAt(y, s)
        /\ (x.neg <=> y.neg)

\* Add for Decimal
DecAdd(x, y) ==
    LET s  == DecMaxScale(x, y)
        mx == DecMagAt(x, s)
        my == DecMagAt(y, s)
    IN  IF x.neg = y.neg THEN DecFit(x.neg, NatAdd(mx, my), s)
        ELSE IF NatLe(my, mx) THEN DecFit(x.neg, NatSub(mx, my), s)
        ELSE DecFit(y.neg, NatSub(my, mx), s)

\* Sub for Decimal
DecSub(x, y) ==
    DecAdd(x, DecNeg(y))

\* Mul and checked_mul for Decimal
DecMul(x, y) ==
    DecFit(x.neg # y.neg, NatMul(x.mag, y.mag), x.scale + y.scale)

\* Div for Decimal, y # 0: the quotient at the first scale, from the difference
\* of the operands' scales up, at which the division leaves no remainder
DecQuotDrop(q, s, z) ==
    IF q = <<>> \/ z > MaxScale - s THEN MaxScale - s ELSE z

DecQuotAt(neg, q, drop) ==
    DecFit(neg, NatDrop(q, drop), MaxScale - drop)

DecQuot(neg, qr, s) ==
    IF qr.r # <<>> THEN Inexact
    ELSE DecQuotAt(neg, qr.q, DecQuotDrop(qr.q, s, NatTrailingZeros(qr.q)))

DecDivFrom(neg, num, den, s) ==
    DecQuot(neg, NatDivMod(NatShift(num, MaxScale - s), den), s)

DecDiv(x, y) ==
    IF x.scale >= y.scale
    THEN DecDivFrom(x.neg # y.neg, x.mag, y.mag, x.scale - y.scale)
    ELSE DecDivFrom(x.neg # y.neg, NatShift(x.mag, y.scale - x.scale), y.mag, 0)

\* Rem for Decimal, y # 0: the remainder has the sign of the dividend
DecRem(x, y) ==
    LET s == DecMaxScale(x, y)
    IN  DecFit(x.neg, NatDivMod(DecMagAt(x, s), DecMagAt(y, s)).r, s)

\* The length of d.abs().to_string().trim_end_matches('0'): the digits of the
\* integer part (one at least) and, for a scale above zero, the point and the
\* fraction digits, less the '0' characters at the end of the string.
DecTrimmedLen(d) ==
    LET intLen == IF Len(d.mag) > d.scale THEN Len(d.mag) - d.scale ELSE 1
        z      == NatTrailingZeros(d.mag)
    IN  IF d.scale = 0
        THEN Len(d.mag) - z
        ELSE IF d.mag = <<>> THEN 2
        ELSE intLen + 1 + d.scale - (IF z > d.scale THEN d.scale ELSE z)

\* f64::sqrt through Decimal::to_f64 and Decimal::from_f64: exact on the perfect
\* squares among the integers (IEEE sqrt is correctly rounded)
RECURSIVE NatSqrtFrom(_, _)
NatSqrtCmp(a, r, c) ==
    IF c = 0 THEN Val(Dec(FALSE, r, 0))
    ELSE IF c > 0 THEN Inexact
    ELSE NatSqrtFrom(a, NatAdd(r, <<1>>))

NatSqrtFrom(a, r) ==
    NatSqrtCmp(a, r, NatCmp(NatMul(r, r), a))

DecSqrt(d) ==
    IF d.scale = 0 /\ Len(d.mag) <= 4 THEN NatSqrtFrom(d.mag, <<>>) ELSE Inexact

(***************************************************************************)
(* Tokens (enum Token) and the results of the functions.                   *)
(***************************************************************************)
Number(d) == [type |-> "Number", value |-> d]
Plus == [type |-> "Plus"]
Minus == [type |-> "Minus"]
Multiply == [type |-> "Multiply"]
Divide == [type |-> "Divide"]
Modulo == [type |-> "Modulo"]
Sqrt == [type |-> "Sqrt"]
Abs == [type |-> "Abs"]
Factorial == [type |-> "Factorial"]
LeftParen == [type |-> "LeftParen"]
RightParen == [type |-> "RightParen"]
Exponentiation == [type |-> "Exponentiation"]

\* Err(message): the Err of a Result
Err(msg) == [k |-> "err", msg |-> msg]

\* a panic of the thread: an index out of bounds, an overflow of the Decimal
\* operators +, -, *, /, an unwrap of an error
Panic == [k |-> "panic"]

\* what an Overflow or an Inexact of a Decimal operator written a + b, a * b, ...
\* makes of the call: the operator panics on overflow
OfOperator(r) ==
    IF r.k = "overflow" THEN Panic ELSE r

(***************************************************************************)
(* fn precedence                                                           *)
(***************************************************************************)
precedence(token) ==
    IF token.type \in {"Plus", "Minus"} THEN 1
    ELSE IF token.type \in {"Multiply", "Divide", "Modulo"} THEN 2
    ELSE IF token.type = "Exponentiation" THEN 3
    ELSE IF token.type = "Factorial" THEN 4
    ELSE IF token.type \in {"Sqrt", "Abs"} THEN 5
    ELSE 0

(***************************************************************************)
(* fn factorial                                                            *)
(***************************************************************************)
\* for i in i..=n_int { result *= Decimal::from(i) }
RECURSIVE factorial_loop(_, _, _)
factorial_step(i, n_int, r) ==
    IF r.k = "val" THEN factorial_loop(i + 1, n_int, r.d) ELSE r

factorial_loop(i, n_int, result) ==
    IF i > n_int THEN Val(result)
    ELSE factorial_step(i, n_int, OfOperator(DecMul(result, DecOfInt(i))))

\* the largest argument factorial accepts
FactorialLimit == 20

\* factorial with the limit one too low: 20! is refused
factorial_StrictLimit(n) ==
    IF DecIsNegative(n) THEN Err("Cannot compute factorial of negative number")
    ELSE IF NatCmp(DecIntMag(n), NatOf(FactorialLimit)) >= 0
    THEN Err("Factorial result too large")
    ELSE factorial_loop(1, NatVal(DecIntMag(n)), DecOne)

factorial(n) ==
    IF DecIsNegative(n) THEN Err("Cannot compute factorial of negative number")
    ELSE LET n_int == DecIntMag(n)
         IN  IF NatCmp(n_int, NatOf(FactorialLimit)) > 0
             THEN Err("Factorial result too large")
             ELSE factorial_loop(1, NatVal(n_int), DecOne)

(***************************************************************************)
(* fn apply_operator                                                       *)
(***************************************************************************)
\* while exp_abs > 0 { ... }: exponentiation by squaring with checked_mul
RECURSIVE pow_loop(_, _, _)
pow_step(new_result, new_base, exp_abs) ==
    IF new_result.k = "overflow" THEN Err("Result too large")
    ELSE IF new_result.k = "inexact" THEN Inexact
    ELSE IF new_base.k = "overflow" THEN Err("Intermediate result too large")
    ELSE IF new_base.k = "inexact" THEN Inexact
    ELSE pow_loop(new_result.d, new_base.d, exp_abs)

\* the squaring loop multiplying the result on every bit of the exponent
pow_half_EveryBit(result, base, half) ==
    pow_step(DecMul(result, base),
             IF half.q # <<>> THEN DecMul(base, base) ELSE Val(base),
             half.q)

pow_half(result, base, half) ==
    pow_step(IF half.r # <<>> THEN DecMul(result, base) ELSE Val(result),
             IF half.q # <<>> THEN DecMul(base, base) ELSE Val(base),
             half.q)

pow_loop(result, base, exp_abs) ==
    IF exp_abs = <<>> THEN Val(result)
    ELSE pow_half(result, base, NatDivMod(exp_abs, <<2>>))

\* the digit budget of the overflow estimate
PowDigitLimit == 28

\* lines 399-431: the power of the base, which for a negative exponent is 1 / a
pow_base(base, exp) ==
    IF base.k # "val" THEN base ELSE pow_loop(DecOne, base.d, exp)

\* the overflow estimate applied to the negative exponents too
pow_int_AnyExponent(a, b, exp) ==
    IF /\ exp # <<>>
       /\ NatCmp(NatMul(NatOf(DecTrimmedLen(DecAbs(a))), exp), NatOf(PowDigitLimit)) > 0
    THEN Err("Result would be too large")
    ELSE IF b.neg /\ exp # <<>>
    THEN (IF DecIsZero(a) THEN Err("Division by zero in negative exponent")
          ELSE pow_base(OfOperator(DecDiv(DecOne, a)), exp))
    ELSE pow_base(Val(a), exp)

\* lines 377-431: an exponent without fraction, of magnitude exp
pow_int(a, b, exp) ==
    IF /\ ~ b.neg
       /\ exp # <<>>
       /\ NatCmp(NatMul(NatOf(DecTrimmedLen(DecAbs(a))), exp), NatOf(PowDigitLimit)) > 0
    THEN Err("Result would be too large")
    ELSE IF b.neg /\ exp # <<>>
    THEN (IF DecIsZero(a) THEN Err("Division by zero in negative exponent")
          ELSE pow_base(OfOperator(DecDiv(DecOne, a)), exp))
    ELSE pow_base(Val(a), exp)

\* the Exponentiation arm, on the operands a ^ b
exponentiation(a, b) ==
    IF DecFractIsZero(b) THEN pow_int(a, b, DecIntMag(b))
    \* f64::powf: NaN for a negative base, infinite for a zero base and a
    \* negative exponent, else a value the model does not track
    ELSE IF DecIsNegative(a) \/ (DecIsZero(a) /\ b.neg)
    THEN Err("Invalid exponentiation result")
    ELSE Inexact

\* the arms with the message of / on the zero test of %
binary_OneMessage(op, a, b) ==
    IF op.type = "Plus" THEN OfOperator(DecAdd(a, b))
    ELSE IF op.type = "Minus" THEN OfOperator(DecSub(a, b))
    ELSE IF op.type = "Multiply" THEN OfOperator(DecMul(a, b))
    ELSE IF op.type = "Divide"
    THEN (IF DecIsZero(b) THEN Err("division by zero") ELSE OfOperator(DecDiv(a, b)))
    ELSE IF op.type = "Modulo"
    THEN (IF DecIsZero(b) THEN Err("division by zero") ELSE OfOperator(DecRem(a, b)))
    ELSE exponentiation(a, b)

\* the arms of apply_operator on the popped operands: a OP b
binary(op, a, b) ==
    IF op.type = "Plus" THEN OfOperator(DecAdd(a, b))
    ELSE IF op.type = "Minus" THEN OfOperator(DecSub(a, b))
    ELSE IF op.type = "Multiply" THEN OfOperator(DecMul(a, b))
    ELSE IF op.type = "Divide"
    THEN (IF DecIsZero(b) THEN Err("division by zero") ELSE OfOperator(DecDiv(a, b)))
    ELSE IF op.type = "Modulo"
    THEN (IF DecIsZero(b) THEN Err("modulo by zero") ELSE OfOperator(DecRem(a, b)))
    ELSE exponentiation(a, b)

\* the arms of apply_operator on one popped operand
unary(op, n) ==
    IF op.type = "Factorial" THEN factorial(n)
    ELSE IF op.type = "Sqrt"
    THEN (IF DecIsNegative(n) THEN Err("Cannot compute square root of negative number")
          ELSE DecSqrt(n))
    ELSE Val(DecAbs(n))

NotEnough(op) ==
    IF op.type = "Plus" THEN "Not enough operands for addition"
    ELSE IF op.type = "Minus" THEN "Not enough operands for subtraction"
    ELSE IF op.type = "Multiply" THEN "Not enough operands for multiplication"
    ELSE IF op.type = "Divide" THEN "Not enough operands for division"
    ELSE IF op.type = "Modulo" THEN "Not enough operands for modulo"
    ELSE IF op.type = "Exponentiation" THEN "Not enough operands for exponentiation"
    ELSE IF op.type = "Factorial" THEN "Not enough operands for factorial"
    ELSE IF op.type = "Sqrt" THEN "Not enough operands for square root"
    ELSE "Not enough operands for absolute value"

BinaryTypes == {"Plus", "Minus", "Multiply", "Divide", "Modulo", "Exponentiation"}
UnaryTypes == {"Factorial", "Sqrt", "Abs"}

\* Ok(numbers): the operand stack after the operator, or the error
Ok(numbers) == [k |-> "ok", numbers |-> numbers]

\* numbers.push(result) on the operands left, or the error of the arm
push_result(rest, r) ==
    IF r.k = "val" THEN Ok(Append(rest, r.d)) ELSE r

apply_operator(numbers, op) ==
    IF op.type \in BinaryTypes
    THEN IF Len(numbers) < 2 THEN Err(NotEnough(op))
         ELSE push_result(SubSeq(numbers, 1, Len(numbers) - 2),
                          binary(op, numbers[Len(numbers) - 1], numbers[Len(numbers)]))
    ELSE IF op.type \in UnaryTypes
    THEN IF Len(numbers) < 1 THEN Err(NotEnough(op))
         ELSE push_result(SubSeq(numbers, 1, Len(numbers) - 1),
                          unary(op, numbers[Len(numbers)]))
    ELSE Err("Invalid operator")

(***************************************************************************)
(* The nom parsers of tokenize.  An input is a string; position p counts   *)
(* its characters from 1.                                                  *)
(***************************************************************************)
CharAt(input, p) ==
    IF p >= 1 /\ p <= Len(input) THEN SubSeq(input, p, p) ELSE ""

DigitChars == "0123456789"

IsDigit(c) ==
    \E d \in 1..10 : c = SubSeq(DigitChars, d, d)

DigitValue(c) ==
    (CHOOSE d \in 1..10 : c = SubSeq(DigitChars, d, d)) - 1

\* space0: the first position from p on that holds no space
SkipSpaces(input, p) ==
    CHOOSE q \in p..(Len(input) + 1) :
        /\ CharAt(input, q) # " "
        /\ \A j \in p..(q - 1) : CharAt(input, j) = " "

\* digit1: the first position from p on that holds no digit (p when there is none)
DigitsEnd(input, p) ==
    CHOOSE q \in p..(Len(input) + 1) :
        /\ ~ IsDigit(CharAt(input, q))
        /\ \A j \in p..(q - 1) : IsDigit(CharAt(input, j))

\* tag(word)
HasTag(input, p, word) ==
    p + Len(word) - 1 <= Len(input) /\ SubSeq(input, p, p + Len(word) - 1) = word

\* the parsers yield Parsed(token, next position), NoMatch or Panic
Parsed(token, next) == [k |-> "parsed", token |-> token, next |-> next]
NoMatch == [k |-> "nomatch"]

parse_keyword(input, p) ==
    IF HasTag(input, p, "sqrt") THEN Parsed(Sqrt, p + 4)
    ELSE IF HasTag(input, p, "abs") THEN Parsed(Abs, p + 3)
    ELSE NoMatch

\* Decimal::from_str(num_str) on the digits at from..(to - 1), point excluded:
\* an Err (unwrapped to a panic by the caller) for a number that is too large
from_str(input, neg, intFrom, intTo, fracFrom, fracTo) ==
    LET n      == (intTo - intFrom) + (fracTo - fracFrom)
        digits == [j \in 1..n |->
                      LET q == IF j <= fracTo - fracFrom
                               THEN fracTo - j
                               ELSE intTo - (j - (fracTo - fracFrom))
                      IN  DigitValue(CharAt(input, q))]
    IN  DecFit(neg, SeqTrim(digits), fracTo - fracFrom)

\* map_res(..., Decimal::from_str(num_str).map(Token::Number)) on the text up to next
number_of(d, next) ==
    IF d.k = "val" THEN Parsed(Number(d.d), next) ELSE OfOperator(d)

\* opt(pair(char('.'), digit1)) after the digits at intFrom..(intTo - 1)
parse_digits(input, neg, intFrom, intTo) ==
    IF intTo = intFrom THEN NoMatch
    ELSE IF CharAt(input, intTo) = "." /\ IsDigit(CharAt(input, intTo + 1))
    THEN number_of(from_str(input, neg, intFrom, intTo, intTo + 1, DigitsEnd(input, intTo + 1)),
                   DigitsEnd(input, intTo + 1))
    ELSE number_of(from_str(input, neg, intFrom, intTo, intTo, intTo), intTo)

\* digit1 after opt(char('-'))
parse_sign(input, neg, intFrom) ==
    parse_digits(input, neg, intFrom, DigitsEnd(input, intFrom))

\* recognize(pair(opt(char('-')), pair(digit1, opt(pair(char('.'), digit1)))))
parse_number(input, p) ==
    IF CharAt(input, p) = "-" THEN parse_sign(input, TRUE, p + 1)
    ELSE parse_sign(input, FALSE, p)

parse_operator(input, p) ==
    LET c == CharAt(input, p)
    IN  IF c = "+" THEN Parsed(Plus, p + 1)
        ELSE IF c = "-" THEN Parsed(Minus, p + 1)
        ELSE IF c = "*" THEN Parsed(Multiply, p + 1)
        ELSE IF c = "/" THEN Parsed(Divide, p + 1)
        ELSE IF c = "%" THEN Parsed(Modulo, p + 1)
        ELSE IF c = "!" THEN Parsed(Factorial, p + 1)
        ELSE IF c = "^" THEN Parsed(Exponentiation, p + 1)
        ELSE IF c = "(" THEN Parsed(LeftParen, p + 1)
        ELSE IF c = ")" THEN Parsed(RightParen, p + 1)
        ELSE NoMatch

\* alt((parse_keyword, parse_number, parse_operator)): the first that matches
alt(kw, nu, op) ==
    IF kw.k # "nomatch" THEN kw ELSE IF nu.k # "nomatch" THEN nu ELSE op

\* the space0 after the token
delimited(input, r) ==
    IF r.k = "parsed" THEN Parsed(r.token, SkipSpaces(input, r.next)) ELSE r

parse_alt(input, q) ==
    delimited(input, alt(parse_keyword(input, q), parse_number(input, q), parse_operator(input, q)))

\* delimited(space0, alt((parse_keyword, parse_number, parse_operator)), space0)
parse_token(input, p) ==
    parse_alt(input, SkipSpaces(input, p))

\* many0(parse_token) from position p: the tokens and the position of the rest
RECURSIVE many0(_, _, _)
many0_next(input, p, acc, r) ==
    IF r.k = "parsed" /\ Len(acc) >= 0 THEN many0(input, r.next, Append(acc, r.token))
    ELSE IF r.k = "nomatch" THEN [k |-> "lexed", tokens |-> acc, rest |-> p]
    ELSE r

many0(input, p, acc) ==
    many0_next(input, p, acc, parse_token(input, p))

\* lines 96-99: the error on a rest that is not blank
remaining(input, r) ==
    IF r.k # "lexed" THEN r
    ELSE IF \E j \in r.rest..Len(input) : CharAt(input, j) # " "
    THEN Err("Unable to parse remaining input")
    ELSE r

\* lines 93-99 of tokenize: the raw tokens, or the error
lex(input) ==
    remaining(input, many0(input, 1, <<>>))

(***************************************************************************)
(* The state of one run.                                                   *)
(***************************************************************************)
VARIABLES
    entry,             \* the function the caller calls: "tokenize" (then evaluate) or "evaluate"
    input,             \* tokenize's input string
    pc,                \* where the run is: "tokenize", "post", "evaluate", "scan", "main", "done"
    iter,              \* tokenize: the raw tokens the peekable iterator still holds
    processed_tokens,  \* tokenize: the output list built so far
    tokens,            \* evaluate: the token slice
    i,                 \* evaluate: the loop index, from 0
    numbers,           \* evaluate: the operand stack
    operators,         \* evaluate: the operator stack
    paren_count,       \* evaluate: the parenthesis depth
    expect_paren,      \* evaluate: a function awaits its parenthesis
    result,            \* what the run returned, [k |-> "none"] until it returns
    exit,              \* the return point of the run, "" until it returns
    calculator_result, \* Calculator: the result field, the text shown
    is_pressed,        \* ButtonGrid: the indexes of the buttons whose is_pressed is set
    last_clicked_button, \* ButtonGrid: the index of the button held, or None
    event,             \* main: the event read last
    held,              \* history: last_clicked_button when that event was read
    text,              \* main: what the button grid returned for that event
    reads              \* main: the number of events read

vars ==
    <<entry, input, pc, iter, processed_tokens, tokens, i, numbers, operators,
      paren_count, expect_paren, result, exit, calculator_result, is_pressed,
      last_clicked_button, event, held, text, reads>>

calculatorVars ==
    <<calculator_result, is_pressed, last_clicked_button, event, held, text, reads>>

tokenizeVars == <<iter, processed_tokens>>
evaluateVars == <<tokens, i, numbers, operators, paren_count, expect_paren>>

None == [k |-> "none"]

Last(seq) == seq[Len(seq)]
Front(seq) == SubSeq(seq, 1, Len(seq) - 1)

\* return value r at return point at
Return(r, at) ==
    /\ result' = r
    /\ exit' = at
    /\ pc' = "done"

(***************************************************************************)
(* fn tokenize                                                             *)
(***************************************************************************)
\* lines 93-103: the parsers, then the iterator over the raw tokens
Lexed(r) ==
    IF r.k = "lexed"
    THEN /\ iter' = r.tokens
         /\ processed_tokens' = <<>>
         /\ pc' = "post"
         /\ UNCHANGED <<result, exit>>
    ELSE /\ Return(r, "tokenize")
         /\ UNCHANGED tokenizeVars

Tokenize ==
    /\ pc = "tokenize"
    /\ Lexed(lex(input))
    /\ UNCHANGED <<entry, input>>
    /\ UNCHANGED evaluateVars
    /\ UNCHANGED calculatorVars

\* the guard of the first arm: no operand precedes the Minus
UnaryContext(processed) ==
    IF processed = <<>> THEN TRUE
    ELSE Last(processed).type \in
             {"Plus", "Minus", "Multiply", "Divide", "Modulo", "Exponentiation", "LeftParen"}

MinusOne == Number(DecNeg(DecOne))

\* the unary Minus arm peeking at the LeftParen instead of taking it
PostUnaryMinus_KeepsParen ==
    /\ pc = "post"
    /\ iter # <<>>
    /\ Head(iter).type = "Minus"
    /\ UnaryContext(processed_tokens)
    /\ IF Len(iter) >= 2 /\ (IF Len(iter) >= 2 THEN iter[2] ELSE None).type = "Number"
       THEN /\ processed_tokens' = Append(processed_tokens, Number(DecNeg(iter[2].value)))
            /\ iter' = SubSeq(iter, 3, Len(iter))
            /\ UNCHANGED <<pc, result, exit>>
       ELSE IF Len(iter) >= 2 /\ (IF Len(iter) >= 2 THEN iter[2] ELSE None).type = "LeftParen"
       THEN /\ processed_tokens' = processed_tokens \o <<LeftParen, MinusOne, Multiply>>
            /\ iter' = Tail(iter)
            /\ UNCHANGED <<pc, result, exit>>
       ELSE /\ Return(Err("Invalid unary minus"), "tokenize")
            /\ UNCHANGED tokenizeVars
    /\ UNCHANGED <<entry, input>>
    /\ UNCHANGED evaluateVars
    /\ UNCHANGED calculatorVars

\* lines 107-130: a unary Minus takes the next raw token with it
PostUnaryMinus ==
    /\ pc = "post"
    /\ iter # <<>>
    /\ Head(iter).type = "Minus"
    /\ UnaryContext(processed_tokens)
    /\ LET next == IF Len(iter) >= 2 THEN iter[2] ELSE None
       IN  IF Len(iter) >= 2 /\ next.type = "Number"
           THEN /\ processed_tokens' = Append(processed_tokens, Number(DecNeg(next.value)))
                /\ iter' = SubSeq(iter, 3, Len(iter))
                /\ UNCHANGED <<pc, result, exit>>
           ELSE IF Len(iter) >= 2 /\ next.type = "LeftParen"
           THEN /\ processed_tokens' = processed_tokens \o <<LeftParen, MinusOne, Multiply>>
                /\ iter' = SubSeq(iter, 3, Len(iter))
                /\ UNCHANGED <<pc, result, exit>>
           ELSE /\ Return(Err("Invalid unary minus"), "tokenize")
                /\ UNCHANGED tokenizeVars
    /\ UNCHANGED <<entry, input>>
    /\ UNCHANGED evaluateVars
    /\ UNCHANGED calculatorVars

\* lines 131-133
PostFunction ==
    /\ pc = "post"
    /\ iter # <<>>
    /\ Head(iter).type \in {"Sqrt", "Abs"}
    /\ processed_tokens' = Append(processed_tokens, Head(iter))
    /\ iter' = Tail(iter)
    /\ UNCHANGED <<entry, input, pc, result, exit>>
    /\ UNCHANGED evaluateVars
    /\ UNCHANGED calculatorVars

\* lines 137-141: the number on top of the output is replaced by its factorial
Folded(r) ==
    IF r.k = "val"
    THEN /\ processed_tokens' = Append(Front(processed_tokens), Number(r.d))
         /\ iter' = Tail(iter)
         /\ UNCHANGED <<pc, result, exit>>
    ELSE /\ Return(r, "tokenize")
         /\ UNCHANGED tokenizeVars

\* lines 134-149: a factorial is folded into a number, kept after a parenthesis
PostFactorial ==
    /\ pc = "post"
    /\ iter # <<>>
    /\ Head(iter).type = "Factorial"
    /\ IF processed_tokens # <<>> /\ Last(processed_tokens).type = "Number"
       THEN Folded(factorial(Last(processed_tokens).value))
       ELSE IF processed_tokens # <<>> /\ Last(processed_tokens).type = "RightParen"
       THEN /\ processed_tokens' = Append(processed_tokens, Head(iter))
            /\ iter' = Tail(iter)
            /\ UNCHANGED <<pc, result, exit>>
       ELSE /\ Return(Err("Invalid factorial operation"), "tokenize")
            /\ UNCHANGED tokenizeVars
    /\ UNCHANGED <<entry, input>>
    /\ UNCHANGED evaluateVars
    /\ UNCHANGED calculatorVars

\* the binary Minus kept whatever follows it
PostBinaryMinus_AlwaysKept ==
    /\ pc = "post"
    /\ iter # <<>>
    /\ Head(iter).type = "Minus"
    /\ ~ UnaryContext(processed_tokens)
    /\ processed_tokens' = Append(processed_tokens, Head(iter))
    /\ iter' = Tail(iter)
    /\ UNCHANGED <<entry, input, pc, result, exit>>
    /\ UNCHANGED evaluateVars
    /\ UNCHANGED calculatorVars

\* lines 150-159: a binary Minus stays before a number and is rewritten otherwise
PostBinaryMinus ==
    /\ pc = "post"
    /\ iter # <<>>
    /\ Head(iter).type = "Minus"
    /\ ~ UnaryContext(processed_tokens)
    /\ IF Len(iter) >= 2 /\ iter[2].type = "Number"
       THEN processed_tokens' = Append(processed_tokens, Head(iter))
       ELSE processed_tokens' = processed_tokens \o <<Plus, MinusOne, Multiply>>
    /\ iter' = Tail(iter)
    /\ UNCHANGED <<entry, input, pc, result, exit>>
    /\ UNCHANGED evaluateVars
    /\ UNCHANGED calculatorVars

\* line 160
PostOther ==
    /\ pc = "post"
    /\ iter # <<>>
    /\ Head(iter).type \notin {"Minus", "Sqrt", "Abs", "Factorial"}
    /\ processed_tokens' = Append(processed_tokens, Head(iter))
    /\ iter' = Tail(iter)
    /\ UNCHANGED <<entry, input, pc, result, exit>>
    /\ UNCHANGED evaluateVars
    /\ UNCHANGED calculatorVars

\* line 164, and the caller's call of evaluate on the tokens (main.rs, lines 130-132)
PostDone ==
    /\ pc = "post"
    /\ iter = <<>>
    /\ tokens' = processed_tokens
    /\ pc' = "evaluate"
    /\ UNCHANGED <<entry, input, iter, processed_tokens, i, numbers, operators,
                   paren_count, expect_paren, result, exit>>
    /\ UNCHANGED calculatorVars

(***************************************************************************)
(* fn evaluate                                                             *)
(***************************************************************************)
\* the length from which the special-case scan runs, and what its loop bound
\* leaves out of the length
ScanMinLen == 7
ScanMargin == 6
\* the number of tokens of the special-case pattern
PatternLen == 13

\* lines 183-189 and 229-234: the empty slice, then the scan or the main loop
EvaluateEntry ==
    /\ pc = "evaluate"
    /\ IF tokens = <<>>
       THEN /\ Return(Err("Invalid expression"), "empty")
            /\ UNCHANGED i
       ELSE /\ pc' = IF Len(tokens) >= ScanMinLen THEN "scan" ELSE "main"
            /\ i' = 0
            /\ UNCHANGED <<result, exit>>
    /\ UNCHANGED <<entry, input, tokens, numbers, operators, paren_count, expect_paren>>
    /\ UNCHANGED tokenizeVars
    /\ UNCHANGED calculatorVars

\* the 13 token types of lines 192-204
PatternTypes ==
    <<"LeftParen", "Number", "Exponentiation", "Number", "RightParen", "Plus", "Number",
      "Minus", "LeftParen", "Number", "Exponentiation", "Number", "RightParen">>

\* the pattern looked for at the start of the slice alone
PatternAt_OnlyAtStart(toks, at) ==
    /\ at = 0
    /\ \A j \in 1..PatternLen : toks[at + j].type = PatternTypes[j]
    /\ DecEq(toks[at + 2].value, toks[at + 10].value)
    /\ DecEq(toks[at + 4].value, toks[at + 12].value)
    /\ DecFractIsZero(toks[at + 4].value)

\* lines 191-220 on the tokens at index i (from 0) on: the pattern and its condition
PatternAt(toks, at) ==
    /\ \A j \in 1..PatternLen : toks[at + j].type = PatternTypes[j]
    /\ DecEq(toks[at + 2].value, toks[at + 10].value)
    /\ DecEq(toks[at + 4].value, toks[at + 12].value)
    /\ DecFractIsZero(toks[at + 4].value)

\* lines 190-227: one iteration of the scan; building the tuple indexes
\* tokens[i] to tokens[i + 12]
ScanStep ==
    /\ pc = "scan"
    /\ IF i < Len(tokens) - ScanMargin
       THEN IF i + PatternLen - 1 >= Len(tokens)
            THEN /\ Return(Panic, "special_case")
                 /\ UNCHANGED i
            ELSE IF PatternAt(tokens, i)
            THEN /\ Return(Val(tokens[i + 7].value), "special_case")
                 /\ UNCHANGED i
            ELSE /\ i' = i + 1
                 /\ UNCHANGED <<pc, result, exit>>
       ELSE /\ pc' = "main"
            /\ i' = 0
            /\ UNCHANGED <<result, exit>>
    /\ UNCHANGED <<entry, input, tokens, numbers, operators, paren_count, expect_paren>>
    /\ UNCHANGED tokenizeVars
    /\ UNCHANGED calculatorVars

\* the stacks after a loop of apply_operator, or the error that ended it
Stacks(nums, ops) == [k |-> "ok", numbers |-> nums, operators |-> ops]

\* lines 253-258: apply the operators above the innermost LeftParen
RECURSIVE reduce_to_paren(_, _)
reduce_to_paren_next(ops, r) ==
    IF r.k = "ok" THEN reduce_to_paren(r.numbers, Front(ops)) ELSE r

reduce_to_paren(nums, ops) ==
    IF ops = <<>> \/ Last(ops).type = "LeftParen" THEN Stacks(nums, ops)
    ELSE reduce_to_paren_next(ops, apply_operator(nums, Last(ops)))

\* every operator taken as left-associative
Yields_LeftAssociative(top_op, op) ==
    precedence(top_op) >= precedence(op)

\* lines 286-287: the operator on top is applied before op is pushed
Yields(top_op, op) ==
    LET is_right_associative == op.type = "Exponentiation"
    IN  \/ is_right_associative /\ precedence(top_op) > precedence(op)
        \/ ~ is_right_associative /\ precedence(top_op) >= precedence(op)

\* lines 282-293
RECURSIVE reduce_for(_, _, _)
reduce_for_next(op, ops, r) ==
    IF r.k = "ok" THEN reduce_for(op, r.numbers, Front(ops)) ELSE r

reduce_for(op, nums, ops) ==
    IF ops = <<>> \/ Last(ops).type = "LeftParen" THEN Stacks(nums, ops)
    ELSE IF Yields(Last(ops), op)
    THEN reduce_for_next(op, ops, apply_operator(nums, Last(ops)))
    ELSE Stacks(nums, ops)

\* lines 307-309
RECURSIVE drain(_, _)
drain_next(ops, r) ==
    IF r.k = "ok" THEN drain(r.numbers, Front(ops)) ELSE r

drain(nums, ops) ==
    IF ops = <<>> THEN Stacks(nums, ops)
    ELSE drain_next(ops, apply_operator(nums, Last(ops)))

Token == tokens[i + 1]

InLoop ==
    /\ pc = "main"
    /\ i < Len(tokens)

\* lines 237-242
OnNumber ==
    /\ InLoop
    /\ Token.type = "Number"
    /\ IF expect_paren
       THEN /\ Return(Err("Expected '(' after function"), "main_loop")
            /\ UNCHANGED <<i, numbers>>
       ELSE /\ numbers' = Append(numbers, Token.value)
            /\ i' = i + 1
            /\ UNCHANGED <<pc, result, exit>>
    /\ UNCHANGED <<entry, input, tokens, operators, paren_count, expect_paren>>
    /\ UNCHANGED tokenizeVars
    /\ UNCHANGED calculatorVars

\* lines 243-247
OnLeftParen ==
    /\ InLoop
    /\ Token.type = "LeftParen"
    /\ paren_count' = paren_count + 1
    /\ expect_paren' = FALSE
    /\ operators' = Append(operators, Token)
    /\ i' = i + 1
    /\ UNCHANGED <<entry, input, pc, tokens, numbers, result, exit>>
    /\ UNCHANGED tokenizeVars
    /\ UNCHANGED calculatorVars

\* lines 260-264: the function under the LeftParen is popped and applied
apply_function(ops, r) ==
    IF r.k = "ok" THEN Stacks(r.numbers, Front(ops)) ELSE r

\* lines 259-264, on the operators left by the pop of the LeftParen
after_pop(nums, ops) ==
    IF ops # <<>> /\ Last(ops).type \in {"Sqrt", "Abs"}
    THEN apply_function(ops, apply_operator(nums, Last(ops)))
    ELSE Stacks(nums, ops)

\* the LeftParen left on the operator stack when its group closes
close_paren_KeepsLeftParen(reduced) ==
    IF reduced.k # "ok" THEN reduced
    ELSE after_pop(reduced.numbers, reduced.operators)

\* lines 259-264: pop the LeftParen, then apply a function that waits under it
close_paren(reduced) ==
    IF reduced.k # "ok" THEN reduced
    ELSE after_pop(reduced.numbers,
                   IF reduced.operators = <<>> THEN <<>> ELSE Front(reduced.operators))

\* lines 253-265, on the stacks the group leaves
Closed(closed) ==
    IF closed.k = "ok"
    THEN /\ numbers' = closed.numbers
         /\ operators' = closed.operators
         /\ i' = i + 1
         /\ UNCHANGED <<pc, result, exit>>
    ELSE /\ Return(closed, "main_loop")
         /\ UNCHANGED <<i, numbers, operators>>

\* lines 248-265
OnRightParen ==
    /\ InLoop
    /\ Token.type = "RightParen"
    /\ paren_count' = paren_count - 1
    /\ IF paren_count - 1 < 0
       THEN /\ Return(Err("Mismatched parentheses"), "main_loop")
            /\ UNCHANGED <<i, numbers, operators>>
       ELSE Closed(close_paren(reduce_to_paren(numbers, operators)))
    /\ UNCHANGED <<entry, input, tokens, expect_paren>>
    /\ UNCHANGED tokenizeVars
    /\ UNCHANGED calculatorVars

\* lines 266-269
OnFunction ==
    /\ InLoop
    /\ Token.type \in {"Sqrt", "Abs"}
    /\ expect_paren' = TRUE
    /\ operators' = Append(operators, Token)
    /\ i' = i + 1
    /\ UNCHANGED <<entry, input, pc, tokens, numbers, paren_count, result, exit>>
    /\ UNCHANGED tokenizeVars
    /\ UNCHANGED calculatorVars

\* lines 282-295, on the stacks the operators of higher precedence leave
Pushed(reduced) ==
    IF reduced.k = "ok"
    THEN /\ numbers' = reduced.numbers
         /\ operators' = Append(reduced.operators, Token)
         /\ i' = i + 1
         /\ UNCHANGED <<pc, result, exit>>
    ELSE /\ Return(reduced, "main_loop")
         /\ UNCHANGED <<i, numbers, operators>>

\* lines 270-295
OnOperator ==
    /\ InLoop
    /\ Token.type \in BinaryTypes \cup {"Factorial"}
    /\ IF expect_paren
       THEN /\ Return(Err("Expected '(' after function"), "main_loop")
            /\ UNCHANGED <<i, numbers, operators>>
       ELSE Pushed(reduce_for(Token, numbers, operators))
    /\ UNCHANGED <<entry, input, tokens, paren_count, expect_paren>>
    /\ UNCHANGED tokenizeVars
    /\ UNCHANGED calculatorVars

\* the top of the operand stack returned however many values are left
Drained_TopOfStack(drained) ==
    IF drained.k # "ok"
    THEN /\ Return(drained, "epilogue")
         /\ UNCHANGED <<numbers, operators>>
    ELSE /\ numbers' = drained.numbers
         /\ operators' = drained.operators
         /\ IF drained.numbers = <<>>
            THEN Return(Err("Invalid expression"), "epilogue")
            ELSE Return(Val(Last(drained.numbers)), "epilogue")

\* lines 307-315, on the stacks the remaining operators leave
Drained(drained) ==
    IF drained.k # "ok"
    THEN /\ Return(drained, "epilogue")
         /\ UNCHANGED <<numbers, operators>>
    ELSE /\ numbers' = drained.numbers
         /\ operators' = drained.operators
         /\ IF Len(drained.numbers) # 1
            THEN Return(Err("Invalid expression"), "epilogue")
            ELSE Return(Val(drained.numbers[1]), "epilogue")

\* lines 300-315
Epilogue ==
    /\ pc = "main"
    /\ i = Len(tokens)
    /\ IF paren_count # 0
       THEN /\ Return(Err("Mismatched parentheses"), "epilogue")
            /\ UNCHANGED <<numbers, operators>>
       ELSE IF expect_paren
       THEN /\ Return(Err("Expected '(' after function"), "epilogue")
            /\ UNCHANGED <<numbers, operators>>
       ELSE Drained(drain(numbers, operators))
    /\ UNCHANGED <<entry, input, tokens, i, paren_count, expect_paren>>
    /\ UNCHANGED tokenizeVars
    /\ UNCHANGED calculatorVars

(***************************************************************************)
(* The calls the model explores: the strings handed to tokenize and the    *)
(* token slices handed to evaluate.                                        *)
(***************************************************************************)
\* unsigned literals run from 2 to MaxLit
MaxLit == 3
\* every token sequence up to this length is evaluated
MaxTokens == 4
\* factorials are taken of -MaxFactArg .. MaxFactArg
MaxFactArg == 22
\* the tokens put before and after the special-case pattern
MaxPad == 1

RECURSIVE NatStr(_)
NatStr(n) ==
    IF n < 10 THEN SubSeq(DigitChars, n + 1, n + 1)
    ELSE NatStr(n \div 10) \o SubSeq(DigitChars, (n % 10) + 1, (n % 10) + 1)

IntStr(n) ==
    IF n < 0 THEN "-" \o NatStr(-n) ELSE NatStr(n)

UnsignedLits == {NatStr(n) : n \in 2..MaxLit}
Lits == UnsignedLits \cup {"-2", "0.5", "10"}
SmallLits == {"2", "3", "-2"}
OpChars == {"+", "-", "*", "/", "%", "^"}
Seps == {"", " "}

\* a op b and a op1 b op2 c, separated by spaces
BinaryInput(a, op, b) == a \o " " \o op \o " " \o b
TernaryInput(a, op1, b, op2, c) == a \o " " \o op1 \o " " \o b \o " " \o op2 \o " " \o c
BinaryInputs == {BinaryInput(a, op, b) : a \in Lits, op \in OpChars, b \in Lits}
TernaryInputs ==
    {TernaryInput(a, op1, b, op2, c) :
        a \in UnsignedLits, op1 \in OpChars, b \in UnsignedLits \cup {"-2"},
        op2 \in OpChars, c \in UnsignedLits}
    \cup {"2 + 3 * 4", "10 - 3 - 2", "2 ^ 3 ^ 2", "2 * 3 + 4", "0.5 * 4 - 10", "10 / 4 / 5"}

\* a - b with and without spaces around the minus
MinusInput(a, sep1, sep2, b) == a \o sep1 \o "-" \o sep2 \o b
MinusInputs ==
    {MinusInput(a, sep1, sep2, b) :
        a \in UnsignedLits, sep1 \in Seps, sep2 \in Seps, b \in UnsignedLits}

\* (a op1 b) op2 c and a op1 (b op2 c)
LeftGroupInput(a, op1, b, op2, c) ==
    "(" \o a \o " " \o op1 \o " " \o b \o ") " \o op2 \o " " \o c
RightGroupInput(a, op1, b, op2, c) ==
    a \o " " \o op1 \o " (" \o b \o " " \o op2 \o " " \o c \o ")"
GroupOps == {"+", "-", "*"}
GroupInputs ==
    {LeftGroupInput(a, op1, b, op2, c) :
        a \in SmallLits, op1 \in GroupOps, b \in SmallLits, op2 \in GroupOps, c \in SmallLits}
    \cup
    {RightGroupInput(a, op1, b, op2, c) :
        a \in SmallLits, op1 \in GroupOps, b \in SmallLits, op2 \in GroupOps, c \in SmallLits}

\* a - (E), a - sqrt(E), a - abs(E) for a term E, and the composite of the tests
Terms == SmallLits \cup {"16"} \cup {BinaryInput(b, op, c) : b \in {"2", "3"}, op \in GroupOps, c \in {"2", "3"}}
SubtractInput(a, f, e) == a \o " - " \o f \o "(" \o e \o ")"
SubtractInputs ==
    {SubtractInput(a, f, e) : a \in UnsignedLits, f \in {"", "sqrt", "abs"}, e \in Terms}
    \cup {"2 * (3 + 4) ^ 2 - sqrt(16)"}

\* a unary minus before a group, a function or nothing
NegateInputs ==
    {pre \o "-(" \o e \o ")" \o post :
        pre \in {"", "2 * ", "2 - ", "("}, e \in Terms, post \in {"", ")", " + 1"}}
    \cup {"-sqrt(4)", "-", "2 * -", "- - 2", "-abs(2)", "2 -", "2 - - 3"}

\* n! folded by tokenize and (n)! left to evaluate
EagerFactorialInput(n) == IntStr(n) \o "!"
DeferredFactorialInput(n) == "(" \o IntStr(n) \o ")!"
FactArgs == (-MaxFactArg)..MaxFactArg
FactorialInputs ==
    {EagerFactorialInput(n) : n \in FactArgs}
    \cup {DeferredFactorialInput(n) : n \in FactArgs}
    \cup {"!", "2 + !", "(!", "3!!", "2 + 3!", "(2 + 1)!", "2 * (3)!", "2.5!", "sqrt(16)!",
          "(3)! + 2", "2 ^ (3)!"}

\* exponents run from -MaxExp to MaxExp
MaxExp == 5

\* a ^ e for an integer e
PowerInput(a, e) == a \o " ^ " \o IntStr(e)
PowerBases == {"0", "2", "-2", "0.5", "4", "10", "1.5"}
PowerInputs == {PowerInput(a, e) : a \in PowerBases, e \in (-MaxExp)..MaxExp}

\* powers on both sides of the overflow estimate
EstimateBases == {"2", "-2", "0.5", "10", "37"}
EstimateExps == {9, 10, 14, 15, 28, 29}
EstimateInputs ==
    {PowerInput(a, sign * e) : a \in EstimateBases, e \in EstimateExps, sign \in {1, -1}}

\* the shortcut's pattern written as a string, and strings with a Minus before a
\* number, a group, a function and a factorial
ShortcutInputs ==
    {"(2 ^ 2) + 5 - (2 ^ 2)", "(2 ^ 2) + 5 -(2 ^ 2)", "(2 ^ 2) + 7 - (3 ^ 2)",
     "5 - 3!", "5 - 3 - 2", "5 - sqrt(4)", "5 - abs(4)", "(5) - 3", "5 - -3", "5 - - 3",
     "5 -", "5 - )", "5 - 0.5"}

\* divisions and remainders with zero and non-zero right operands
Divisors == {"0", "0.0", "2", "-2", "0.5"}
DivisionInputs ==
    {BinaryInput(a, op, b) : a \in {"0", "6", "-2", "0.5"}, op \in {"/", "%"}, b \in Divisors}
    \cup {TernaryInput("6", op1, b, op2, c) :
              op1 \in {"+", "/", "%"}, b \in {"0", "2"}, op2 \in {"+", "/", "%", "^"},
              c \in {"0", "2"}}

\* f(E) and f(E) op y for a function f: the groups with their integer values
Groups == {<<"-5", -5>>, <<"3", 3>>, <<"-1", -1>>, <<"2 - 5", -3>>, <<"2 * 3 - 10", -4>>}
CallInput(f, e) == f \o "(" \o e \o ")"
CallInputs ==
    {CallInput(f, g[1]) : f \in {"abs", "sqrt"}, g \in Groups}
    \cup {CallInput("abs", x) \o " " \o op \o " " \o y :
              x \in {"-5", "3"}, op \in GroupOps, y \in {"2", "-2"}}
    \cup {"-3 abs()", "abs()", "sqrt(16) + 1", "sqrt(-4) + 1"}

\* the tests' inputs and others that reach the remaining paths
OtherInputs ==
    {"", " ", "x", "2 x", "1.", "2 + 3", "5 - 3", "-3", "4 * 3", "10 / 2", "2 ^ 3", "2 ^ -2",
     "2 + 3 * 4", "(2 + 3) * 4", "1 / 0", "2 ^ 0.5", "(2 + 3", "999999999999 * 999999999999",
     "10 % 3", "5!", "sqrt(16)", "abs(-5)", "sqrt(-1)", "(-5)!", "10.5 % 3", "21!",
     "sqrt 16", "sqrt", "abs(", "2 3", "(2)", "()", ")", "2 + 3)", "1 / 3", "10 % 0",
     "79228162514264337593543950335 + 1", "79228162514264337593543950336",
     "1+2+3+4", "1 + 2 + 3 + 4", "0 ^ -1", "2 ^ 29", "100 ^ 15", "sqrt(2)", "abs(2 - 5) * 2"}

StringInputs ==
    BinaryInputs \cup TernaryInputs \cup MinusInputs \cup GroupInputs \cup SubtractInputs
    \cup NegateInputs \cup FactorialInputs \cup OtherInputs \cup PowerInputs
    \cup DivisionInputs \cup CallInputs \cup EstimateInputs
    \cup ShortcutInputs

Two == DecOfInt(2)

\* every sequence of at most n tokens of the alphabet
TokenAlphabet == {Number(Two), Plus, LeftParen, RightParen, Sqrt, Abs, Factorial}
RECURSIVE SeqsUpTo(_, _)
SeqsUpTo(S, n) ==
    IF n = 0 THEN {<<>>}
    ELSE LET shorter == SeqsUpTo(S, n - 1)
         IN  shorter \cup {Append(q, x) : q \in shorter, x \in S}

\* a function keyword, any token, then a group
FunctionInputs ==
    {<<f, x, LeftParen, Number(DecOfInt(16)), RightParen>> :
        f \in {Sqrt, Abs}, x \in TokenAlphabet \cup {Minus, Exponentiation}}

\* ( a ^ e ) + b - ( a2 ^ e2 )
Pattern(a, e, b, a2, e2) ==
    <<LeftParen, Number(a), Exponentiation, Number(e), RightParen, Plus, Number(b),
      Minus, LeftParen, Number(a2), Exponentiation, Number(e2), RightParen>>

Half == Dec(FALSE, <<5>>, 1)
TwoPointZero == Dec(FALSE, <<0, 2>>, 1)
PadAlphabet == {Number(Two), Plus, LeftParen, RightParen}
Pads == SeqsUpTo(PadAlphabet, MaxPad)
Patterns ==
    {Pattern(Two, e, b, a2, e2) :
        e \in {Two, Half}, b \in {DecOfInt(5), DecOfInt(7)},
        a2 \in {Two, DecOfInt(3)}, e2 \in {Two, Half, TwoPointZero}}
PatternInputs ==
    {pre \o pat \o post : pre \in Pads, pat \in Patterns, post \in Pads}
    \cup {pat \o Pattern(Two, Two, DecOfInt(9), Two, Two) : pat \in Patterns}

\* slices of 7 tokens and more: sums of MaxTokens terms and more
RECURSIVE SumOf(_)
SumOf(n) ==
    IF n = 1 THEN <<Number(Two)>> ELSE SumOf(n - 1) \o <<Plus, Number(Two)>>
LongInputs == {SumOf(n) : n \in MaxTokens..(MaxTokens + 4)}

TokenInputs ==
    SeqsUpTo(TokenAlphabet, MaxTokens) \cup FunctionInputs \cup PatternInputs \cup LongInputs

(***************************************************************************)
(* The specification.                                                      *)
(***************************************************************************)
Init ==
    /\ \/ /\ entry = "tokenize"
          /\ input \in StringInputs
          /\ tokens = <<>>
          /\ pc = "tokenize"
       \/ /\ entry = "evaluate"
          /\ input = ""
          /\ tokens \in TokenInputs
          /\ pc = "evaluate"
    /\ iter = <<>>
    /\ processed_tokens = <<>>
    /\ i = 0
    /\ numbers = <<>>
    /\ operators = <<>>
    /\ paren_count = 0
    /\ expect_paren = FALSE
    /\ result = None
    /\ exit = ""
    /\ calculator_result = None
    /\ is_pressed = {}
    /\ last_clicked_button = None
    /\ event = None
    /\ held = None
    /\ text = None
    /\ reads = 0

Next ==
    \/ Tokenize
    \/ PostUnaryMinus
    \/ PostFunction
    \/ PostFactorial
    \/ PostBinaryMinus
    \/ PostOther
    \/ PostDone
    \/ EvaluateEntry
    \/ ScanStep
    \/ OnNumber
    \/ OnLeftParen
    \/ OnRightParen
    \/ OnFunction
    \/ OnOperator
    \/ Epilogue

Spec == Init /\ [][Next]_vars

(***************************************************************************)
(* button_grid.rs: struct ButtonGrid                                       *)
(***************************************************************************)
Some(v) == [k |-> "some", v |-> v]

\* ButtonGrid::new, lines 35-66: the texts and the keys of the buttons, in order;
\* the index of a button counts from 0
ButtonTexts ==
    <<"C", "CE", "(", ")", "sqrt", "abs", "^", "%", "7", "8", "9", "/",
      "4", "5", "6", "*", "1", "2", "3", "-", "0", ".", "!", "+">>
ButtonKeys ==
    <<"c", "e", "(", ")", "s", "a", "^", "%", "7", "8", "9", "/",
      "4", "5", "6", "*", "1", "2", "3", "-", "0", ".", "!", "+">>
Buttons == 0..(Len(ButtonTexts) - 1)

\* lines 81-87 and 131-137: what a button stands for
button_result(index) ==
    LET button_text == ButtonTexts[index + 1]
    IN  IF button_text = "C" THEN "CLEAR_ALL"
        ELSE IF button_text = "CE" THEN "CLEAR_ENTRY"
        ELSE IF button_text = "sqrt" THEN "sqrt("
        ELSE IF button_text = "abs" THEN "abs("
        ELSE button_text

\* what a handler of the grid returns and leaves in the grid
Grid(returned, pressed, last) ==
    [text |-> returned, is_pressed |-> pressed, last_clicked_button |-> last]

\* lines 75-95: the first button of the key, pressed and released at once
handle_key_event(key_code) ==
    IF \E idx \in Buttons : ButtonKeys[idx + 1] = key_code
    THEN LET idx == CHOOSE b \in Buttons :
                        /\ ButtonKeys[b + 1] = key_code
                        /\ \A c \in Buttons : ButtonKeys[c + 1] = key_code => b <= c
         IN  Grid(Some(button_result(idx)), is_pressed \ {idx}, None)
    ELSE Grid(None, is_pressed, last_clicked_button)

\* lines 129-144, on the value last of self.last_clicked_button that line 129 reads
released(last, index) ==
    IF last # None
    THEN (IF last.v = index THEN Some(button_result(index)) ELSE None)
    ELSE None

\* lines 114-158: an event of kind over the button index
over_button(kind, index) ==
    IF kind = "Down"
    THEN Grid(None, is_pressed \cup {index}, Some(index))
    ELSE IF kind = "Up"
    \* lines 123-126 reset the button and clear the field, then line 129 reads the field
    THEN Grid(released(None, index),
              IF last_clicked_button # None THEN is_pressed \ {last_clicked_button.v}
              ELSE is_pressed,
              None)
    ELSE IF kind = "Drag" /\ last_clicked_button # None
    THEN (IF last_clicked_button.v # index
          THEN Grid(None, (is_pressed \ {last_clicked_button.v}) \cup {index}, Some(index))
          ELSE Grid(None, is_pressed, last_clicked_button))
    ELSE Grid(None, is_pressed, last_clicked_button)

\* lines 105-112: the index of the cell under the point, relative to the area
cell(x, y, area) ==
    ((y - area.y) \div 3) * 4 + ((x - area.x) \div (area.width \div 4))

\* lines 97-172
handle_mouse_event(kind, x, y, area) ==
    IF x >= area.x /\ x < area.x + area.width /\ y >= area.y /\ y < area.y + area.height
    THEN (IF cell(x, y, area) < Len(ButtonTexts)
          THEN over_button(kind, cell(x, y, area))
          ELSE Grid(None, is_pressed, last_clicked_button))
    ELSE IF kind = "Up" /\ last_clicked_button # None
    THEN Grid(None, is_pressed \ {last_clicked_button.v}, None)
    ELSE Grid(None, is_pressed, last_clicked_button)

(***************************************************************************)
(* main.rs: struct Calculator and the event loop of main                   *)
(***************************************************************************)
\* Calculator::new: max_input_length
max_input_length == 50

\* the number of digits from which a literal exceeds 1e100
TooLargeDigits == 101

\* String::pop
pop(str) == IF str = "" THEN str ELSE SubSeq(str, 1, Len(str) - 1)

\* lines 66-71: pop the characters down to a whitespace character
RECURSIVE clear_entry(_)
clear_entry(str) ==
    IF str = "" THEN str
    ELSE IF CharAt(str, Len(str)) = " " THEN str
    ELSE clear_entry(pop(str))

\* the length test left out: the text is pushed while the input is not over the limit
on_text_TestsInputAlone(t) ==
    IF t = "CLEAR_ALL"
    THEN /\ input' = ""
         /\ pc' = "calculator_evaluate"
         /\ UNCHANGED calculator_result
    ELSE IF t = "CLEAR_ENTRY"
    THEN /\ input' = clear_entry(input)
         /\ pc' = "calculator_evaluate"
         /\ UNCHANGED calculator_result
    ELSE IF Len(input) <= max_input_length
    THEN /\ input' = input \o t
         /\ pc' = "calculator_evaluate"
         /\ UNCHANGED calculator_result
    ELSE /\ calculator_result' = Some("Error: Input too long")
         /\ UNCHANGED <<input, pc>>

\* lines 60-82 of handle_key, and the same code at lines 230-252 of main: the text
\* of a button applied to the input, then the call of evaluate, or the return
\* (continue in main) on a text that does not fit
on_text(t) ==
    IF t = "CLEAR_ALL"
    THEN /\ input' = ""
         /\ pc' = "calculator_evaluate"
         /\ UNCHANGED calculator_result
    ELSE IF t = "CLEAR_ENTRY"
    THEN /\ input' = clear_entry(input)
         /\ pc' = "calculator_evaluate"
         /\ UNCHANGED calculator_result
    ELSE IF Len(input) + Len(t) <= max_input_length
    THEN /\ input' = input \o t
         /\ pc' = "calculator_evaluate"
         /\ UNCHANGED calculator_result
    ELSE /\ calculator_result' = Some("Error: Input too long")
         /\ UNCHANGED <<input, pc>>

\* lines 56-90, on what handle_key_event returned
Keyed(key, r) ==
    /\ text' = r.text
    /\ is_pressed' = r.is_pressed
    /\ last_clicked_button' = r.last_clicked_button
    /\ IF r.text # None THEN on_text(r.text.v)
       ELSE /\ input' = IF key = "Backspace" THEN pop(input) ELSE input
            /\ pc' = "calculator_evaluate"
            /\ UNCHANGED calculator_result

\* lines 50-94 up to the call of self.evaluate()
handle_key(key) ==
    IF key = "q" /\ input = ""
    THEN UNCHANGED <<input, pc, calculator_result, is_pressed, last_clicked_button, text>>
    ELSE Keyed(key, handle_key_event(key))

\* the key codes read: Char(c) as the string of c
Keys == {"c", "e", "q", "Backspace", "4", "+", "s"}

\* the number of events read in a run
MaxEvents == 2

\* main, lines 216-224: a key event
KeyEvent ==
    /\ pc = "idle"
    /\ reads < MaxEvents
    /\ \E key \in Keys :
           /\ event' = [type |-> "Key", code |-> key]
           /\ IF key = "q" /\ input = ""
              THEN /\ pc' = "quit"
                   /\ UNCHANGED <<input, calculator_result, is_pressed,
                                  last_clicked_button, text>>
              ELSE handle_key(key)
    /\ held' = last_clicked_button
    /\ reads' = reads + 1
    /\ UNCHANGED <<entry, result, exit>>
    /\ UNCHANGED tokenizeVars
    /\ UNCHANGED evaluateVars

\* terminal.get_frame().area(): a terminal of 8 columns and 21 rows
Area == [x |-> 0, y |-> 0, width |-> 8, height |-> 21]

\* the kinds of mouse event of the left button, and one the grid ignores
MouseKinds == {"Down", "Up", "Drag", "Moved"}

\* the points of the events: over C, CE, sqrt and abs, right of the area, and in
\* the area under the last row of buttons
MousePoints == {<<0, 0>>, <<2, 0>>, <<0, 3>>, <<2, 3>>, <<8, 0>>, <<0, 18>>}

\* lines 226-254, on what handle_mouse_event returned
Clicked(r) ==
    /\ text' = r.text
    /\ is_pressed' = r.is_pressed
    /\ last_clicked_button' = r.last_clicked_button
    /\ IF r.text # None THEN on_text(r.text.v)
       ELSE UNCHANGED <<input, pc, calculator_result>>

\* main, lines 225-255: a mouse event
MouseEvent ==
    /\ pc = "idle"
    /\ reads < MaxEvents
    /\ \E kind \in MouseKinds, point \in MousePoints :
           /\ event' = [type |-> "Mouse", kind |-> kind, column |-> point[1],
                        row |-> point[2]]
           /\ Clicked(handle_mouse_event(kind, point[1], point[2], Area))
    /\ held' = last_clicked_button
    /\ reads' = reads + 1
    /\ UNCHANGED <<entry, result, exit>>
    /\ UNCHANGED tokenizeVars
    /\ UNCHANGED evaluateVars

\* lines 107-129: a run of digits that f64 reads above 1e100
number_too_large(str) ==
    /\ Len(str) >= TooLargeDigits
    /\ \E from \in 1..(Len(str) - TooLargeDigits + 1) :
           /\ CharAt(str, from) \in {"1", "2", "3", "4", "5", "6", "7", "8", "9"}
           /\ \A j \in from..(from + TooLargeDigits - 1) : IsDigit(CharAt(str, j))

\* Calculator::evaluate, lines 100-131: up to the call of tokenize
CalculatorEvaluate ==
    /\ pc = "calculator_evaluate"
    /\ IF input = ""
       THEN /\ calculator_result' = None
            /\ pc' = "idle"
            /\ UNCHANGED <<result, exit>>
            /\ UNCHANGED tokenizeVars
            /\ UNCHANGED evaluateVars
       ELSE IF number_too_large(input)
       THEN /\ calculator_result' = Some("Error: Number too large")
            /\ pc' = "idle"
            /\ UNCHANGED <<result, exit>>
            /\ UNCHANGED tokenizeVars
            /\ UNCHANGED evaluateVars
       ELSE /\ pc' = "tokenize"
            /\ iter' = <<>>
            /\ processed_tokens' = <<>>
            /\ tokens' = <<>>
            /\ i' = 0
            /\ numbers' = <<>>
            /\ operators' = <<>>
            /\ paren_count' = 0
            /\ expect_paren' = FALSE
            /\ result' = None
            /\ exit' = ""
            /\ UNCHANGED calculator_result
    /\ UNCHANGED <<entry, input, is_pressed, last_clicked_button, event, held, text, reads>>

\* the digits of a mantissa from position high down to position low, as text
RECURSIVE digits_text(_, _, _)
digits_text(mag, high, low) ==
    IF high < low THEN ""
    ELSE SubSeq(DigitChars, NatDigit(mag, high) + 1, NatDigit(mag, high) + 1)
             \o digits_text(mag, high - 1, low)

\* a text the model does not track
Untracked == [k |-> "untracked"]

\* the places of format!("{:.10}", result)
FormatPlaces == 10

\* lines 143-153: the value with 10 places, less the zeros at the end and the point;
\* a value of more places is rounded, to a text the model does not track, as is
\* the sign of a negative zero
format_result(d) ==
    IF d.scale > FormatPlaces \/ (d.neg /\ d.mag = <<>>) THEN Untracked
    ELSE LET top   == IF Len(d.mag) > d.scale THEN Len(d.mag) ELSE d.scale + 1
             zeros == IF \E j \in 1..d.scale : NatDigit(d.mag, j) # 0
                      THEN (CHOOSE j \in 1..d.scale :
                                /\ NatDigit(d.mag, j) # 0
                                /\ \A l \in 1..(j - 1) : NatDigit(d.mag, l) = 0) - 1
                      ELSE d.scale
         IN  Some((IF d.neg THEN "-" ELSE "")
                  \o digits_text(d.mag, top, d.scale + 1)
                  \o (IF zeros < d.scale THEN "." ELSE "")
                  \o digits_text(d.mag, d.scale, zeros + 1))

\* lines 136-137: result > Decimal::MAX or result < Decimal::MIN, the bounds that
\* unwrap_or gives since Decimal::from_str does not read "1e50"
result_too_large(d) == NatCmp(DecIntMag(d), MaxMantissa) > 0

\* Calculator::evaluate, lines 131-163: what tokenize and evaluate returned is shown
\* (the message of tokenize on an input it cannot read is kept without the rest of the
\* input that the code appends to it); a panic ends the program
ShowResult ==
    /\ pc = "done"
    /\ IF result = Panic
       THEN /\ pc' = "crashed"
            /\ UNCHANGED calculator_result
       ELSE /\ pc' = "idle"
            /\ calculator_result' =
                   IF result.k = "err" THEN Some("Error: " \o result.msg)
                   ELSE IF result.k # "val" THEN Untracked
                   ELSE IF result_too_large(result.d) THEN Some("Error: Result too large")
                   ELSE format_result(result.d)
    /\ UNCHANGED <<entry, input, result, exit, is_pressed, last_clicked_button, event,
                   held, text, reads>>
    /\ UNCHANGED tokenizeVars
    /\ UNCHANGED evaluateVars

\* n points, an input that tokenize rejects at its first character
RECURSIVE Points(_)
Points(n) == IF n = 0 THEN "" ELSE "." \o Points(n - 1)

\* inputs the keys can build, no prefix of which panics: the short ones reach every
\* step of tokenize and evaluate, the long ones are at the length limit and under it
KeyedInputs ==
    {"", "12+34", "12+", "7", "-", "3!", "5-", "(2)", "1+2+3+", "sqrt(16)", "2^-", "-("}
    \cup {Points(n) : n \in (max_input_length - 5)..max_input_length}

\* Calculator at the call of self.evaluate() that ends handle_key, line 93, after
\* the keys that built the input
InitUI ==
    /\ entry = "tokenize"
    /\ input \in KeyedInputs
    /\ pc = "calculator_evaluate"
    /\ iter = <<>>
    /\ processed_tokens = <<>>
    /\ tokens = <<>>
    /\ i = 0
    /\ numbers = <<>>
    /\ operators = <<>>
    /\ paren_count = 0
    /\ expect_paren = FALSE
    /\ result = None
    /\ exit = ""
    /\ calculator_result = None
    /\ is_pressed = {}
    /\ last_clicked_button = None
    /\ event = None
    /\ held = None
    /\ text = None
    /\ reads = 0

NextUI ==
    \/ KeyEvent
    \/ MouseEvent
    \/ CalculatorEvaluate
    \/ ShowResult
    \/ Tokenize
    \/ PostUnaryMinus
    \/ PostFunction
    \/ PostFactorial
    \/ PostBinaryMinus
    \/ PostOther
    \/ PostDone
    \/ EvaluateEntry
    \/ ScanStep
    \/ OnNumber
    \/ OnLeftParen
    \/ OnRightParen
    \/ OnFunction
    \/ OnOperator
    \/ Epilogue

SpecUI == InitUI /\ [][NextUI]_vars

(***************************************************************************)
(* Properties.  A run has returned when pc = "done"; result then holds the *)
(* Decimal, the error or the panic of the call chain.                      *)
(***************************************************************************)
Returned == pc = "done"

\* the Decimal a literal denotes
Lit(s) == parse_number(s, 1).token.value

\* the run returned the value of the reference result ref
ReturnedAs(ref) ==
    /\ result.k = "val"
    /\ ref.k = "val"
    /\ DecEq(result.d, ref.d)

ReturnedInt(n) == ReturnedAs(Val(DecOfInt(n)))

\* x OP y on reference results
Apply(op, x, y) ==
    IF x.k # "val" THEN x ELSE IF y.k # "val" THEN y ELSE binary(op, x.d, y.d)

\* C1: a run of evaluate never ends in a panic of the special-case scan, that is,
\* the scan reads no token at an index outside the sequence, whatever its length.
C1_ScanReadsInside ==
    Returned /\ exit = "special_case" => result # Panic

\* a slice of seven tokens, 2 + 2 + 2 + 2, ends in the panic of tokens[i + 7]
C1_SevenTokensPanic ==
    /\ Returned
    /\ entry = "evaluate"
    /\ tokens = SumOf(4)
    /\ result = Panic

\* C2: "(a + b) * c" returns (a + b) * c, and "(2 + 3) * 4" returns 20.
C2_ParenthesesOverride ==
    /\ \A a \in SmallLits, b \in SmallLits, c \in SmallLits :
           Returned /\ input = LeftGroupInput(a, "+", b, "*", c)
               => ReturnedAs(Apply(Multiply, Apply(Plus, Val(Lit(a)), Val(Lit(b))), Val(Lit(c))))
    /\ Returned /\ input = "(2 + 3) * 4" => ReturnedInt(20)

\* "(2 + 3) * 4" is seven tokens and ends in the panic of the scan
C2_GroupPanics ==
    /\ Returned
    /\ input = "(2 + 3) * 4"
    /\ tokens = <<LeftParen, Number(DecOfInt(2)), Plus, Number(DecOfInt(3)), RightParen,
                  Multiply, Number(DecOfInt(4))>>
    /\ result = Panic

\* C3: "a - (b)" returns a - b, "a - sqrt(16)" returns a - 4 and
\* "2 * (3 + 4) ^ 2 - sqrt(16)" returns 94.
C3_SubtractsTerm ==
    /\ \A a \in UnsignedLits, b \in SmallLits :
           Returned /\ input = SubtractInput(a, "", b)
               => ReturnedAs(Apply(Minus, Val(Lit(a)), Val(Lit(b))))
    /\ \A a \in UnsignedLits :
           Returned /\ input = SubtractInput(a, "sqrt", "16")
               => ReturnedAs(Apply(Minus, Val(Lit(a)), Val(DecOfInt(4))))
    /\ Returned /\ input = "2 * (3 + 4) ^ 2 - sqrt(16)" => ReturnedInt(94)

\* "2 - (3)" is rewritten to 2 + -1 * ( 3 ), seven tokens, and ends in the panic
C3_RewrittenThenPanics ==
    /\ Returned
    /\ input = "2 - (3)"
    /\ tokens = <<Number(DecOfInt(2)), Plus, MinusOne, Multiply, LeftParen,
                  Number(DecOfInt(3)), RightParen>>
    /\ result = Panic

\* C4: for unsigned literals a and b, "a - b", "a -b" and "a-b" all return a - b.
C4_MinusWhateverTheSpaces ==
    \A a \in UnsignedLits, b \in UnsignedLits, sep \in {<<" ", " ">>, <<" ", "">>, <<"", "">>} :
        Returned /\ input = MinusInput(a, sep[1], sep[2], b)
            => ReturnedAs(Apply(Minus, Val(Lit(a)), Val(Lit(b))))

\* "3-2" is lexed as the numbers 3 and -2 and is no expression
C4_GluedMinusIsANumber ==
    /\ Returned
    /\ input = "3-2"
    /\ tokens = <<Number(DecOfInt(3)), Number(DecOfInt(-2))>>
    /\ result = Err("Invalid expression")

\* the precedence table of the claim: + - below * / % below ^
Level(op) ==
    IF op.type \in {"Plus", "Minus"} THEN 1
    ELSE IF op.type \in {"Multiply", "Divide", "Modulo"} THEN 2
    ELSE 3

\* the value of the parse of a op1 b and of a op1 b op2 c: op2 binds first when it
\* is above op1, or when both are ^
Parse(raw) ==
    IF Len(raw) = 3 THEN Apply(raw[2], Val(raw[1].value), Val(raw[3].value))
    ELSE IF \/ Level(raw[4]) > Level(raw[2])
            \/ raw[2].type = "Exponentiation" /\ raw[4].type = "Exponentiation"
    THEN Apply(raw[2], Val(raw[1].value),
               Apply(raw[4], Val(raw[3].value), Val(raw[5].value)))
    ELSE Apply(raw[4], Apply(raw[2], Val(raw[1].value), Val(raw[3].value)),
               Val(raw[5].value))

\* C5: "a op1 b" and "a op1 b op2 c" return the value of the parse fixed by the
\* precedence table, ^ right-associative, the others left-associative, each operator
\* applied as left OP right, whenever that parse has a value the model tracks:
\* 2 + 3 * 4 = 14, 10 - 3 - 2 = 5, 2 ^ 3 ^ 2 = 512.
C5_PrecedenceAndAssociativity ==
    /\ Returned /\ input \in BinaryInputs \cup TernaryInputs
           /\ Parse(lex(input).tokens).k = "val"
           => ReturnedAs(Parse(lex(input).tokens))
    /\ Returned /\ input = "2 + 3 * 4" => ReturnedInt(14)
    /\ Returned /\ input = "10 - 3 - 2" => ReturnedInt(5)
    /\ Returned /\ input = "2 ^ 3 ^ 2" => ReturnedInt(512)
    /\ Returned /\ input = "10 - 3" => ReturnedInt(7)

\* 2 ^ 3 ^ 2 has returned 2 ^ 9
C5_PowerOfPower ==
    /\ Returned
    /\ input = "2 ^ 3 ^ 2"
    /\ exit = "epilogue"
    /\ ReturnedInt(512)

\* the post-processing pass is at a unary Minus followed by LeftParen
AtUnaryMinusParen ==
    /\ pc = "post"
    /\ Len(iter) >= 2
    /\ iter[1] = Minus
    /\ UnaryContext(processed_tokens)
    /\ iter[2] = LeftParen

\* C6 (amended): at a unary Minus followed by LeftParen the pass emits LeftParen,
\* Number(-1), Multiply and takes both tokens from the raw stream: the parenthesis
\* is emitted once.
C6_UnaryMinusTakesParen ==
    [][AtUnaryMinusParen =>
           /\ processed_tokens' = processed_tokens \o <<LeftParen, MinusOne, Multiply>>
           /\ iter' = SubSeq(iter, 3, Len(iter))]_vars

\* C6 (as stated): the pass emits LeftParen, Number(-1), Multiply and leaves the
\* parenthesis in the raw stream.
C6_UnaryMinusLeavesParen ==
    [][AtUnaryMinusParen =>
           /\ processed_tokens' = processed_tokens \o <<LeftParen, MinusOne, Multiply>>
           /\ iter' = Tail(iter)]_vars

\* "-(2)" is tokenized to ( -1 * 2 ): one LeftParen
C6_NegatedGroupTokens ==
    /\ input = "-(2)"
    /\ pc = "evaluate"
    /\ tokens = <<LeftParen, MinusOne, Multiply, Number(DecOfInt(2)), RightParen>>

\* a Sqrt or Abs of toks that no LeftParen follows
FunctionWithoutParen(toks) ==
    \E j \in 1..Len(toks) :
        /\ toks[j].type \in {"Sqrt", "Abs"}
        /\ IF j = Len(toks) THEN TRUE ELSE toks[j + 1].type # "LeftParen"

\* C7: evaluate returns an error on every sequence that holds a Sqrt or an Abs not
\* immediately followed by LeftParen.
C7_FunctionNeedsParen ==
    Returned /\ entry = "evaluate" /\ FunctionWithoutParen(tokens) => result.k = "err"

\* Sqrt, Abs, LeftParen, Number(16), RightParen returns 4
C7_SqrtAbsAccepted ==
    /\ Returned
    /\ tokens = <<Sqrt, Abs, LeftParen, Number(DecOfInt(16)), RightParen>>
    /\ ReturnedInt(4)

\* the LeftParen less the RightParen among the first n tokens
Depth(toks, n) ==
    Cardinality({j \in 1..n : toks[j].type = "LeftParen"})
        - Cardinality({j \in 1..n : toks[j].type = "RightParen"})

Balanced(toks) ==
    /\ \A n \in 1..Len(toks) : Depth(toks, n) >= 0
    /\ Depth(toks, Len(toks)) = 0

\* C8: on a sequence whose parentheses are not balanced evaluate returns an error,
\* and it returns a value with the tracked depth at zero only.
C8_ValueOnlyWhenBalanced ==
    /\ Returned /\ entry = "evaluate" /\ ~ Balanced(tokens) => result.k = "err"
    /\ Returned /\ result.k = "val" => paren_count = 0

\* the pattern followed by a RightParen returns b
C8_UnbalancedValue ==
    /\ Returned
    /\ tokens = Pattern(Two, Two, DecOfInt(5), Two, Two) \o <<RightParen>>
    /\ result = Val(DecOfInt(5))

\* the 13 tokens of the claim at index p (from 0) of toks
Occurs(toks, p) ==
    /\ p + 13 <= Len(toks)
    /\ <<toks[p + 1], toks[p + 3], toks[p + 5], toks[p + 6], toks[p + 8], toks[p + 9],
         toks[p + 11], toks[p + 13]>>
           = <<LeftParen, Exponentiation, RightParen, Plus, Minus, LeftParen,
               Exponentiation, RightParen>>
    /\ \A j \in {2, 4, 7, 10, 12} : toks[p + j].type = "Number"
    /\ DecEq(toks[p + 2].value, toks[p + 10].value)
    /\ DecEq(toks[p + 4].value, toks[p + 12].value)
    /\ NatLowZeros(toks[p + 4].value.mag, toks[p + 4].value.scale)

Leftmost(toks, p) ==
    /\ Occurs(toks, p)
    /\ \A q \in 0..(p - 1) : ~ Occurs(toks, q)

\* C9 (amended): on a sequence that holds the 13 tokens, evaluate returns the b of
\* their leftmost occurrence from the scan, whatever the tokens around it.
C9_ShortcutReturnsLeftmostB ==
    \A p \in 0..(Len(tokens) - 1) :
        Returned /\ entry = "evaluate" /\ Leftmost(tokens, p)
            => result = Val(tokens[p + 7].value) /\ exit = "special_case"

\* C9 (as stated): evaluate returns the b of the 13 tokens at any position.
C9_ShortcutReturnsAnyB ==
    \A p \in 0..(Len(tokens) - 1) :
        Returned /\ entry = "evaluate" /\ Occurs(tokens, p)
            => result = Val(tokens[p + 7].value)

\* the pattern after one token and before an unmatched RightParen has returned b
C9_ShortcutInTheMiddle ==
    /\ Returned
    /\ tokens = <<Plus>> \o Pattern(Two, Two, DecOfInt(7), Two, TwoPointZero) \o <<RightParen>>
    /\ result = Val(DecOfInt(7))
    /\ exit = "special_case"

\* k * (k + 1) * ... * n * acc, as digits
RECURSIVE ProductFrom(_, _, _)
ProductFrom(k, n, acc) ==
    IF k > n \/ Len(acc) < 0 THEN acc ELSE ProductFrom(k + 1, n, NatMul(acc, NatOf(k)))

\* n!, the digits of the product 1 * 2 * ... * n
Product(n) ==
    ProductFrom(1, n, <<1>>)

\* 20! = 2432902008176640000
Factorial20 ==
    <<0, 0, 0, 0, 4, 6, 6, 7, 1, 8, 0, 0, 2, 0, 9, 2, 3, 4, 2>>

\* the outcome the claim gives the factorial of the integer n
FactorialOutcome(n) ==
    IF n < 0 THEN result = Err("Cannot compute factorial of negative number")
    ELSE IF n > 20 THEN result.k = "err"
    ELSE result = Val(Dec(FALSE, Product(n), 0))

\* C10: "n!" and "(n)!" have the same outcome: the exact product 1..n for
\* 0 <= n <= 20, the error "Cannot compute factorial of negative number" for n < 0,
\* an error for n > 20.
C10_FactorialEagerAndDeferred ==
    /\ \A n \in FactArgs :
           Returned /\ input \in {EagerFactorialInput(n), DeferredFactorialInput(n)}
               => FactorialOutcome(n)
    /\ Returned /\ input \in {"20!", "(20)!"} => result = Val(Dec(FALSE, Factorial20, 0))
    /\ Returned /\ input \in {"5!", "(5)!"} => ReturnedInt(120)
    /\ Returned /\ input \in {"0!", "(0)!"} => ReturnedInt(1)

\* (20)! has returned 20! from the epilogue of evaluate
C10_DeferredTwenty ==
    /\ Returned
    /\ input = "(20)!"
    /\ tokens = <<LeftParen, Number(DecOfInt(20)), RightParen, Factorial>>
    /\ exit = "epilogue"
    /\ result = Val(Dec(FALSE, Factorial20, 0))

\* base * base * ... * base * acc, n factors base, as a reference result
RECURSIVE RepeatedProduct(_, _, _)
RepeatedProduct(base, n, acc) ==
    IF n = 0 \/ acc.k # "val" THEN acc
    ELSE RepeatedProduct(base, n - 1, DecMul(acc.d, base))

\* a multiplied e times for e >= 0, 1 / a multiplied -e times for e < 0
PowerReference(a, e) ==
    IF e >= 0 THEN RepeatedProduct(a, e, Val(DecOne))
    ELSE IF DecIsZero(a) THEN Err("Division by zero in negative exponent")
    ELSE IF DecDiv(DecOne, a).k # "val" THEN DecDiv(DecOne, a)
    ELSE RepeatedProduct(DecDiv(DecOne, a).d, -e, Val(DecOne))

\* C11: for a base a and an integer exponent e that pass the overflow guards, a ^ e
\* returns the exact repeated product (a ^ 0 = 1, 1 / a multiplied |e| times for
\* e < 0); a zero base with a negative exponent returns an error; 2 ^ 3 = 8 and
\* 2 ^ -2 = 0.25.
C11_PowerIsRepeatedProduct ==
    /\ \A a \in PowerBases, e \in (-MaxExp)..MaxExp :
           Returned /\ input = PowerInput(a, e)
               => /\ result # Panic
                  /\ result.k = "val" => ReturnedAs(PowerReference(Lit(a), e))
                  /\ e = 0 => ReturnedInt(1)
                  /\ Lit(a).mag = <<>> /\ e < 0
                         => result = Err("Division by zero in negative exponent")
                  /\ a \in {"2", "-2", "4"} => result.k = "val"
    /\ Returned /\ input = "2 ^ 3" => ReturnedInt(8)
    /\ Returned /\ input = "2 ^ -2" => ReturnedAs(Val(Dec(FALSE, <<5, 2>>, 2)))

\* 0.5 ^ -3 has returned 8
C11_NegativePowerOfHalf ==
    /\ Returned
    /\ input = "0.5 ^ -3"
    /\ exit = "epilogue"
    /\ ReturnedInt(8)

\* x OP y with the zero right operand of / and % singled out
Checked(op, x, y) ==
    IF x.k # "val" THEN x
    ELSE IF y.k # "val" THEN y
    ELSE IF op.type = "Divide" /\ y.d.mag = <<>> THEN Err("division by zero")
    ELSE IF op.type = "Modulo" /\ y.d.mag = <<>> THEN Err("modulo by zero")
    ELSE binary(op, x.d, y.d)

\* the parse of a op1 b and of a op1 b op2 c with the operators applied by Checked
CheckedParse(raw) ==
    IF Len(raw) = 3 THEN Checked(raw[2], Val(raw[1].value), Val(raw[3].value))
    ELSE IF \/ Level(raw[4]) > Level(raw[2])
            \/ raw[2].type = "Exponentiation" /\ raw[4].type = "Exponentiation"
    THEN Checked(raw[2], Val(raw[1].value),
                 Checked(raw[4], Val(raw[3].value), Val(raw[5].value)))
    ELSE Checked(raw[4], Checked(raw[2], Val(raw[1].value), Val(raw[3].value)),
                 Val(raw[5].value))

ZeroErrors == {Err("division by zero"), Err("modulo by zero")}

\* C12: evaluate returns the error "division by zero" exactly when a / is applied to
\* a right operand equal to zero and "modulo by zero" exactly when a % is, and no
\* value then; with non-zero right operands neither error is returned.
C12_ZeroRightOperand ==
    /\ Returned /\ input \in DivisionInputs
           => /\ CheckedParse(lex(input).tokens) \in ZeroErrors
                     => result = CheckedParse(lex(input).tokens)
              /\ result \in ZeroErrors => result = CheckedParse(lex(input).tokens)
    /\ Returned /\ input \in {"1 / 0", "6 / 0.0", "6 / 0 ^ 2"} => result = Err("division by zero")
    /\ Returned /\ input \in {"10 % 0", "6 % 0.0", "6 / 2 % 0"} => result = Err("modulo by zero")
    /\ Returned /\ input = "0 / 2" => ReturnedInt(0)

\* 6 / 0 ^ 2 has returned "division by zero" on the computed right operand 0
C12_ComputedZeroDivisor ==
    /\ Returned
    /\ input = "6 / 0 ^ 2"
    /\ exit = "epilogue"
    /\ result = Err("division by zero")

\* the absolute value of the integer n
AbsInt(n) == IF n < 0 THEN -n ELSE n

\* C13: abs(E) returns the absolute value of the group E, "abs(x) op y" applies the
\* function to x only, and sqrt of a group whose value is negative returns the error
\* "Cannot compute square root of negative number".
C13_FunctionOfGroup ==
    /\ \A g \in Groups :
           /\ Returned /\ input = CallInput("abs", g[1]) => ReturnedInt(AbsInt(g[2]))
           /\ Returned /\ input = CallInput("sqrt", g[1]) /\ g[2] < 0
                  => result = Err("Cannot compute square root of negative number")
    /\ \A x \in {"-5", "3"}, op \in GroupOps, y \in {"2", "-2"} :
           Returned /\ input = CallInput("abs", x) \o " " \o op \o " " \o y
               => ReturnedAs(Apply(parse_operator(op, 1).token, Val(DecAbs(Lit(x))), Val(Lit(y))))

\* abs(2 * 3 - 10) is 8 tokens and ends in the panic of the scan
C13_LongGroupPanics ==
    /\ Returned
    /\ input = "abs(2 * 3 - 10)"
    /\ Len(tokens) = 8
    /\ result = Panic

\* abs of an empty group is applied to the number before the function
C13_EmptyGroupTakesNeighbour ==
    /\ Returned
    /\ input = "-3 abs()"
    /\ ReturnedInt(3)

\* the main loop and the drain of the operators have completed without an error
DrainCompleted ==
    /\ Returned
    /\ exit = "epilogue"
    /\ paren_count = 0
    /\ ~expect_paren
    /\ operators = <<>>

\* C14: tokenize("") succeeds with no token and evaluate of no token returns "Invalid
\* expression"; when the main loop and the drain complete without another error,
\* evaluate returns the one value left on the operand stack, and "Invalid expression"
\* when none or several are left (as for Number(2), Number(3)).
C14_ExactlyOneValue ==
    /\ entry = "tokenize" /\ input = "" /\ pc # "tokenize"
           => /\ tokens = <<>>
              /\ exit \in {"", "empty"}
              /\ Returned => result = Err("Invalid expression")
    /\ Returned /\ tokens = <<>> /\ exit # "tokenize"
           => result = Err("Invalid expression") /\ exit = "empty"
    /\ DrainCompleted
           => IF Len(numbers) = 1 THEN result = Val(numbers[1])
              ELSE result = Err("Invalid expression")
    /\ Returned /\ exit = "epilogue" /\ result.k = "val"
           => DrainCompleted /\ Len(numbers) = 1
    /\ Returned /\ input = "2 3" => result = Err("Invalid expression")

\* the tokens Number(2), Number(3) leave two values and no operator
C14_TwoValuesLeft ==
    /\ DrainCompleted
    /\ tokens = <<Number(DecOfInt(2)), Number(DecOfInt(3))>>
    /\ Len(numbers) = 2
    /\ result = Err("Invalid expression")

\* digits(|base|) * |exponent| exceeds the digit budget
OverEstimate(a, e) == DecTrimmedLen(DecAbs(Lit(a))) * AbsInt(e) > PowDigitLimit

TooLarge == Err("Result would be too large")

\* C15 as stated: a ^ e is rejected with an error whenever digits(|a|) * |e| > 28, for
\* the negative exponents as for the positive ones.
C15_EstimateRejectsBothSigns ==
    \A a \in EstimateBases, e \in EstimateExps, sign \in {1, -1} :
        Returned /\ input = PowerInput(a, sign * e) /\ OverEstimate(a, e)
            => result.k = "err"

\* C15 amended: the estimate rejects a ^ e with "Result would be too large" exactly
\* when e is positive and digits(|a|) * e > 28; for a negative exponent the estimate is
\* not applied and the loop runs on 1 / a.
C15_EstimateRejectsPositive ==
    \A a \in EstimateBases, e \in EstimateExps, sign \in {1, -1} :
        Returned /\ input = PowerInput(a, sign * e)
            => /\ result # Panic
               /\ result = TooLarge <=> (sign = 1 /\ OverEstimate(a, e))
               /\ sign = -1 /\ a = "0.5" => ReturnedAs(PowerReference(Lit("2"), e))

\* 0.5 ^ -10 is over the estimate (3 * 10) and returns 1024
C15_NegativeExponentComputed ==
    /\ Returned
    /\ input = "0.5 ^ -10"
    /\ OverEstimate("0.5", -10)
    /\ ReturnedInt(1024)

\* "-(E)"
NegateInput(e) == "-(" \o e \o ")"

\* the negation of a reference result
Negated(x) == IF x.k # "val" THEN x ELSE Val(DecNeg(x.d))

\* C16: "-(E)" returns the negation of the value of E, for E a literal and for E a sum,
\* a difference or a product: "-(2)" returns -2 and "-(2 + 3)" returns -5.
C16_NegatesWholeGroup ==
    /\ \A e \in SmallLits \cup {"16"} :
           Returned /\ input = NegateInput(e) => ReturnedAs(Negated(Val(Lit(e))))
    /\ \A b \in {"2", "3"}, op \in GroupOps, c \in {"2", "3"} :
           Returned /\ input = NegateInput(BinaryInput(b, op, c))
               => ReturnedAs(Negated(Apply(parse_operator(op, 1).token,
                                           Val(Lit(b)), Val(Lit(c)))))
    /\ Returned /\ input = "-(2)" => ReturnedInt(-2)
    /\ Returned /\ input = "-(2 + 3)" => ReturnedInt(-5)

\* "-(2 + 3)" is rewritten to ( -1 * 2 + 3 ), where -1 multiplies the 2 alone, and the
\* seven tokens end in the panic of the scan
C16_MinusOneTimesFirstTerm ==
    /\ Returned
    /\ input = "-(2 + 3)"
    /\ tokens = <<LeftParen, MinusOne, Multiply, Number(DecOfInt(2)), Plus,
                  Number(DecOfInt(3)), RightParen>>
    /\ result = Panic

\* every Minus of toks is immediately followed by a Number
MinusBeforeNumber(toks) ==
    \A j \in 1..Len(toks) :
        toks[j].type = "Minus" => j < Len(toks) /\ toks[j + 1].type = "Number"

\* toks holds the 13-token pattern at some index
HoldsPattern(toks) ==
    \E at \in 0..(Len(toks) - PatternLen) : PatternAt(toks, at)

\* C20: in the tokens tokenize returns (and in its output so far, where the Number
\* after a last Minus is the next raw token) every Minus is immediately followed by
\* a Number; so the output never holds the 13-token pattern and evaluate of it never
\* returns through the shortcut.
C20_MinusBeforeNumber ==
    entry = "tokenize" =>
        /\ MinusBeforeNumber(tokens)
        /\ ~ HoldsPattern(tokens)
        /\ pc = "post" =>
               MinusBeforeNumber(IF processed_tokens # <<>>
                                    /\ Last(processed_tokens).type = "Minus"
                                    /\ iter # <<>>
                                 THEN Append(processed_tokens, Head(iter))
                                 ELSE processed_tokens)
        /\ Returned /\ exit = "special_case" => result = Panic

\* the pattern as a string: its Minus is rewritten, the 15 tokens hold no Minus and
\* the scan, finding no pattern, reads past the end
C20_PatternStringRewritten ==
    /\ Returned
    /\ input = "(2 ^ 2) + 5 - (2 ^ 2)"
    /\ Len(tokens) = 15
    /\ SubSeq(tokens, 6, 10) = <<Plus, Number(DecOfInt(5)), Plus, MinusOne, Multiply>>
    /\ exit = "special_case"
    /\ result = Panic

\* the event e is a mouse event of the kind over the button b
MouseOver(e, kind, b) ==
    /\ e # None
    /\ e.type = "Mouse"
    /\ e.kind = kind
    /\ e.column >= Area.x /\ e.column < Area.x + Area.width
    /\ e.row >= Area.y /\ e.row < Area.y + Area.height
    /\ cell(e.column, e.row, Area) = b

\* C17: a left Down over a button followed by a left Up over the same button returns
\* the text the button stands for (CLEAR_ALL for C, CLEAR_ENTRY for CE, "sqrt(" and
\* "abs("), and an Up over another button returns nothing.
C17_ClickReturnsText ==
    [][reads' = reads + 1 =>
           \A b \in Buttons :
               MouseOver(event, "Down", b) =>
                   /\ MouseOver(event', "Up", b) => text' = Some(button_result(b))
                   /\ \A c \in Buttons \ {b} : MouseOver(event', "Up", c) => text' = None]_vars

\* the button C held and released over C: nothing is returned and the input stays
C17_ClickReturnsNothing ==
    /\ pc = "idle"
    /\ MouseOver(event, "Up", 0)
    /\ held = Some(0)
    /\ button_result(0) = "CLEAR_ALL"
    /\ text = None
    /\ last_clicked_button = None
    /\ input = "12+34"

\* str less its last entry: the digits and points of a number at its end, or the
\* one character of an operation
RECURSIVE WithoutNumber(_)
WithoutNumber(str) ==
    IF str # "" /\ (IsDigit(CharAt(str, Len(str))) \/ CharAt(str, Len(str)) = ".")
    THEN WithoutNumber(pop(str))
    ELSE str

WithoutLastEntry(str) ==
    IF str # "" /\ (IsDigit(CharAt(str, Len(str))) \/ CharAt(str, Len(str)) = ".")
    THEN WithoutNumber(str)
    ELSE pop(str)

\* inputs of two entries and more that the keys build
TwoEntryInputs == {"12+34", "12+", "1+2+3+"}

\* C18: the key of CE removes the last number or operation of the input and leaves
\* what is before it: from 12+34 the input becomes 12+, and is not empty.
C18_ClearEntryKeepsTheRest ==
    [][/\ pc = "idle"
       /\ input \in TwoEntryInputs
       /\ reads' = reads + 1
       /\ event' = [type |-> "Key", code |-> "e"]
       => /\ input' # ""
          /\ input' = WithoutLastEntry(input)
          /\ input = "12+34" => input' = "12+"]_vars

\* the key of CE on 12+34, shown as 46 until evaluate runs: the input is empty
C18_ClearEntryEmptiesInput ==
    /\ pc = "calculator_evaluate"
    /\ event = [type |-> "Key", code |-> "e"]
    /\ text = Some("CLEAR_ENTRY")
    /\ calculator_result = Some("46")
    /\ input = ""

\* the step handles a key whose button stands for a text to push
PushesText ==
    /\ pc = "idle"
    /\ reads' = reads + 1
    /\ event'.type = "Key"
    /\ text' # None
    /\ text'.v \notin {"CLEAR_ALL", "CLEAR_ENTRY"}

\* C19: the input never holds more than max_input_length characters; a key whose
\* text does not fit leaves the input as it is and sets the result to "Error: Input
\* too long" without a call of tokenize or evaluate, and a text that fits is pushed
\* and evaluated.
C19_InputWithinLimit ==
    /\ [](Len(input) <= max_input_length)
    /\ [][PushesText =>
              IF Len(input) + Len(text'.v) > max_input_length
              THEN /\ input' = input
                   /\ calculator_result' = Some("Error: Input too long")
                   /\ pc' = "idle"
                   /\ UNCHANGED <<result, exit>>
                   /\ UNCHANGED tokenizeVars
                   /\ UNCHANGED evaluateVars
              ELSE /\ input' = input \o text'.v
                   /\ pc' = "calculator_evaluate"
                   /\ UNCHANGED calculator_result]_vars

\* the key s on an input of 46 characters: "sqrt(" does not fit
C19_TextDoesNotFit ==
    /\ pc = "idle"
    /\ event = [type |-> "Key", code |-> "s"]
    /\ text = Some("sqrt(")
    /\ Len(input) = max_input_length - 4
    /\ input = Points(max_input_length - 4)
    /\ calculator_result = Some("Error: Input too long")
    /\ result = Err("Unable to parse remaining input")

\* the number of LeftParen tokens on the operator stack ops
LeftParens(ops) ==
    Cardinality({j \in 1..Len(ops) : ops[j].type = "LeftParen"})

\* the reduction loop at a RightParen, when it ends without error, ends under a LeftParen
EndsAtLeftParen(reduced) ==
    reduced.k = "ok" =>
        /\ reduced.operators # <<>>
        /\ Last(reduced.operators).type = "LeftParen"

\* C21: in the main loop, after each token processed without error, paren_count is
\* the number of LeftParen tokens on the operator stack; so at a RightParen that the
\* counter accepts, the pop after the reduction loop removes a LeftParen, and no run
\* returns "Invalid operator".
C21_CounterCountsLeftParens ==
    /\ pc = "main" => paren_count = LeftParens(operators)
    /\ pc = "main" /\ i < Len(tokens) =>
           (Token.type = "RightParen" /\ paren_count >= 1
                => EndsAtLeftParen(reduce_to_paren(numbers, operators)))
    /\ Returned => result # Err("Invalid operator")

\* ( ( 2 ) after its RightParen: the inner LeftParen is popped, the outer one is
\* left and counted
C21_InnerGroupClosed ==
    /\ pc = "main"
    /\ tokens = <<LeftParen, LeftParen, Number(Two), RightParen>>
    /\ i = 4
    /\ paren_count = 1
    /\ operators = <<LeftParen>>
    /\ numbers = <<Two>>

====
